---- MODULE Spec2Model ----
(***************************************************************************)
(* A model of the record engine of rd (the Rust port of rr): one           *)
(* RecordTask with its pending-event stack, its stashed-signal queue, its  *)
(* signal-handler table and sigmask cache, its syscallbuf flags and the    *)
(* frames it writes to the trace.                                          *)
(*                                                                         *)
(* The task is the record `t`; its fields carry the names of the fields of *)
(* struct RecordTask.  Every method of RecordTask is an operator that maps *)
(* a task to the task after the call, so that a handler that calls other   *)
(* methods is the composition of their operators.  A failed ed_assert!     *)
(* aborts the tracer: the task becomes the aborted task, on which every    *)
(* operator is the identity.                                               *)
(***************************************************************************)
EXTENDS Integers, Sequences, FiniteSets, TLC

VARIABLES
    t,      \* the RecordTask (and the tracee state it reads and writes)
    op,     \* the last operation called on the task, with its arguments
    ret     \* what that operation returned ("none" when it returns nothing)

vars == <<t, op, ret>>

-----------------------------------------------------------------------------
(* Bounds of the model.                                                    *)

\* pending_events never grows beyond this depth.
MaxDepth == 2
\* The trace holds at most this many frames.
MaxTrace == 5
\* At most this many syscalls are started by the tracee.
MaxSyscalls == 2
\* The handler table holds at most this many entries that a sigaction call
\* has set.
MaxHandlers == 1
\* pending_events never grows beyond this depth while the mask is followed.
MaxRestartDepth == 3
\* stashed_signals never grows beyond this length.
MaxStash == 3
\* At most this many stash calls are made.
MaxStashCalls == 3

-----------------------------------------------------------------------------
(* Signals.                                                                *)

SIGKILL == 9
SIGUSR1 == 10
SIGSEGV == 11
SIGCHLD == 17
SIGSTOP == 19
SIGSYS == 31
SIGRTMIN == 32
\* A realtime signal (SIGRTMIN + 2).
SIGRT2 == SIGRTMIN + 2

\* The signals the model draws its inputs from.
ModelSigs == {SIGKILL, SIGUSR1, SIGSEGV, SIGCHLD, SIGSTOP, SIGRT2}

is_unstoppable_signal(sig) == sig = SIGSTOP \/ sig = SIGKILL

\* util::default_action, for the signals of the model (signal(7)).
default_action(sig) ==
    CASE sig = SIGSEGV -> "DumpCore"
      [] sig = SIGSYS -> "DumpCore"
      [] sig = SIGCHLD -> "Ignore"
      [] sig = SIGSTOP -> "Stop"
      [] OTHER -> "Terminate"

-----------------------------------------------------------------------------
(* Events.                                                                 *)

\* The six argument registers of a syscall, all zero.
NoArgs == <<0, 0, 0, 0, 0, 0>>

\* An event that is not a syscall event.  `sid` names the tracee syscall an
\* event belongs to (0: none); it is not a field of the program's Event.
\* `args` are the argument registers of the regs a syscall event holds.
PlainEvent(type) ==
    [type |-> type, state |-> "NoSyscall", number |-> 0, sid |-> 0,
     failed_during_preparation |-> FALSE, args |-> NoArgs]

\* Event::new_syscall_event(SyscallEventData::new(no, arch))
SyscallEvent(no, sid) ==
    [type |-> "EvSyscall", state |-> "NoSyscall", number |-> no, sid |-> sid,
     failed_during_preparation |-> FALSE, args |-> NoArgs]

\* The syscall-interruption event handle_desched_event pushes.
SyscallInterruptionEvent(no, sid) ==
    [type |-> "EvSyscallInterruption", state |-> "NoSyscall", number |-> no,
     sid |-> sid, failed_during_preparation |-> FALSE, args |-> NoArgs]

\* Event::is_syscall_event
is_syscall_event(ev) == ev.type \in {"EvSyscall", "EvSyscallInterruption"}

\* Event::has_ticks_slop
has_ticks_slop(ev) ==
    ev.type \in {"EvSyscallbufFlush", "EvSyscallbufReset", "EvDesched"}

-----------------------------------------------------------------------------
(* Sequences.                                                              *)

Front(s) == SubSeq(s, 1, Len(s) - 1)

-----------------------------------------------------------------------------
(* The memory of the tracee.                                               *)

\* The highest mapped address; address 0 is null and the addresses above
\* MaxAddr are not mapped.
MaxAddr == 1

MappedAddrs == 1..MaxAddr

\* The addresses and the byte values of the model.
Addrs == 0..(MaxAddr + 1)
Bytes == {0, 1}

\* VecDeque::remove(pos), positions counted from 1.
RemoveAt(s, pos) == SubSeq(s, 1, pos - 1) \o SubSeq(s, pos + 1, Len(s))

Min(S) == CHOOSE x \in S : \A y \in S : x <= y

-----------------------------------------------------------------------------
(* The task.                                                               *)

\* SignalDisposition
Dispositions == {"SignalDefault", "SignalIgnore", "SignalHandler"}

\* The values of k_sa_handler: SIG_DFL, SIG_IGN and the addresses of the user
\* handlers of the model.
SIG_DFL == 0
SIG_IGN == 1
HandlerAddrs == {2}

\* What the sa of a Sighandler may hold after init_arch: init_arch copies
\* size_of::<Arch::kernel_sigaction>() bytes from `&raw const ksa`, the
\* address of its parameter (a reference), not from the kernel_sigaction the
\* parameter refers to, so the copy reads the stack of the tracer beyond the
\* reference and the bytes it leaves are any bytes.
SaBytes == {<<0>>, <<1>>}

\* Sighandler::default
NewSighandler ==
    [k_sa_handler |-> SIG_DFL, sa |-> <<>>, resethand |-> FALSE,
     takes_siginfo |-> FALSE]

\* An Arch::kernel_sigaction, by the fields the tracer reads: the handler and
\* the SA_RESETHAND and SA_SIGINFO bits of sa_flags.
KernelSigaction(k_sa_handler, resethand, siginfo) ==
    [k_sa_handler |-> k_sa_handler, resethand |-> resethand, siginfo |-> siginfo]

\* Arch::kernel_sigaction::default()
DefaultKernelSigaction == KernelSigaction(SIG_DFL, FALSE, FALSE)

\* Sighandler::init_arch: the handler after the call; `copied` are the bytes
\* copy_nonoverlapping read.
init_arch(h, ksa, copied) ==
    [k_sa_handler |-> ksa.k_sa_handler, sa |-> copied,
     resethand |-> ksa.resethand, takes_siginfo |-> ksa.siginfo]

\* Sighandler::reset_arch (reset_handler)
reset_arch(h, copied) == init_arch(h, DefaultKernelSigaction, copied)

\* Sighandler::disposition
disposition(h) ==
    CASE h.k_sa_handler = SIG_DFL -> "SignalDefault"
      [] h.k_sa_handler = SIG_IGN -> "SignalIgnore"
      [] OTHER -> "SignalHandler"

\* Sighandler::get_user_handler (0: None)
get_user_handler(h) ==
    IF disposition(h) = "SignalHandler" THEN h.k_sa_handler ELSE 0

\* Sighandlers::reset_user_handlers: every entry with a user handler is
\* reset, the others are left alone.  `copied` as in init_arch.
reset_user_handlers(handlers, copied) ==
    [sig \in DOMAIN handlers |->
        IF disposition(handlers[sig]) = "SignalHandler"
        THEN reset_arch(handlers[sig], copied)
        ELSE handlers[sig]]

\* The signal the session uses as the desched signal (SIGPWR by default).
syscallbuf_desched_sig == 30

\* The bits a signal mask of the model may hold: bit sig - 1 stands for sig.
\* A sig_set_t is modelled as the set of the bits that are set in it.
MaskBits == {SIGKILL - 1, SIGUSR1 - 1}

\* RecordTask::new: the task after construction.  hdr_* are the fields of the
\* syscallbuf header in the tracee, kernel_sigmask the tracee's signal mask
\* in the kernel (SigBlk of /proc/<tid>/status), ptrace_sigmask the mask
\* PTRACE_GETSIGMASK reports and getsigmask_fails whether that request fails,
\* arch the architecture of the tracee, regs the registers of the tracee the
\* model follows, original_syscall_parameters the syscall parameters the
\* preload library keeps in its thread locals (set: the pointer is not null)
\* and continue_type the field of the session's StepState; mem is the memory
\* of the tracee, raw_data the raw-data records of the trace (time: the time
\* of the frame they belong to, the next one written), unstable the flag of
\* an unstable exit, vm_task_set_len the number of tasks of the address
\* space, this one included, and destroyed whether the task was dropped.
\* emulated_ptracer is the tid of the task whose ptrace of this one the tracer
\* emulates (0: None), emulated_ptrace_tracees the tids of the tasks this one
\* ptraces and emulated_ptrace_options the set of the PTRACE_O_ options that
\* are set (the empty set: 0).
\* Some fields belong to no field of the program and only record what
\* happened: next_sid numbers the tracee's syscalls, stash_calls and the
\* entries' `order` and `via` number and name the stash calls,
\* last_stash names the path the last stash call took ("queued", "dropped"
\* by coalescing, or "superseded": queued in place of the entry it removed),
\* and blocked_sigs_source names where the value of blocked_sigs was read
\* ("ptrace", "proc", or "none" for the value of RecordTask::new).
NewTask ==
    [aborted |-> FALSE,
     pending_events |-> <<PlainEvent("EvSentinel")>>,
     trace |-> <<>>,
     next_sid |-> 1,
     stashed_signals |-> <<>>,
     stash_calls |-> 0,
     last_stash |-> "none",
     stashed_signals_blocking_more_signals |-> FALSE,
     break_at_syscallbuf_traced_syscalls |-> FALSE,
     break_at_syscallbuf_untraced_syscalls |-> FALSE,
     break_at_syscallbuf_final_instruction |-> FALSE,
     syscallbuf_child |-> FALSE,
     hdr_num_rec_bytes |-> 0,
     hdr_desched_signal_may_be_relevant |-> FALSE,
     flushed_num_rec_bytes |-> 0,
     flushed_syscallbuf |-> FALSE,
     delay_syscallbuf_reset_for_desched |-> FALSE,
     delay_syscallbuf_reset_for_seccomp_trap |-> FALSE,
     syscallbuf_blocked_sigs_generation |-> 0,
     sighandlers |-> [sig \in ModelSigs |-> NewSighandler],
     blocked_sigs |-> {},
     blocked_sigs_dirty |-> TRUE,
     blocked_sigs_source |-> "none",
     kernel_sigmask |-> {},
     ptrace_sigmask |-> {},
     getsigmask_fails |-> FALSE,
     tid_futex |-> 0,
     robust_futex_list |-> 0,
     robust_futex_list_len |-> 0,
     received_sigframe_sigsegv |-> FALSE,
     arch |-> "X64",
     regs |-> [original_syscallno |-> 0, syscallno |-> 0, args |-> NoArgs],
     original_syscall_parameters |-> [set |-> FALSE, no |-> 0, args |-> NoArgs],
     mem |-> [a \in MappedAddrs |-> 0],
     raw_data |-> <<>>,
     unstable |-> FALSE,
     vm_task_set_len |-> 1,
     destroyed |-> FALSE,
     stable_exit |-> FALSE,
     cpuid_mode |-> 1,
     emulated_ptracer |-> 0,
     emulated_ptrace_tracees |-> {},
     emulated_ptrace_options |-> {},
     emulated_stop_pending |-> FALSE,
     emulated_stop_type |-> "NotStopped",
     continue_type |-> "Continue"]

\* A failed ed_assert!, or an unwrap() of None: the tracer aborts and nothing
\* of the task remains.
Abort(task) == [NewTask EXCEPT !.aborted = TRUE]

-----------------------------------------------------------------------------
(* The stashed-signal queue.                                               *)

Determinism == {"DeterministicSig", "NondeterministicSig"}

\* The siginfo of a signal of number sig that carries no other data.
Siginfo(sig) ==
    [si_signo |-> sig, si_errno |-> 0, si_code |-> "none", sigsys_syscall |-> 0,
     sigsys_arch |-> "none", sival_int |-> 0]

\* What every successful stash does after queueing the signal.
SetStashFlags(task) ==
    [task EXCEPT !.stashed_signals_blocking_more_signals = TRUE,
                 !.break_at_syscallbuf_final_instruction = TRUE,
                 !.break_at_syscallbuf_traced_syscalls = TRUE,
                 !.break_at_syscallbuf_untraced_syscalls = TRUE]

\* The queue entry a stash call makes: the siginfo and the determinism flag
\* of StashedSignal, and the call's number and kind.
StashedSignal(task, si, deterministic, via) ==
    [siginfo |-> si, deterministic |-> deterministic,
     order |-> task.stash_calls + 1, via |-> via]

\* The positions of the queue that hold signal number sig.
QueuedAt(task, sig) ==
    {i \in 1..Len(task.stashed_signals) :
        task.stashed_signals[i].siginfo.si_signo = sig}

\* stash_sig without the coalescing loop: every signal is queued.
stash_sig_no_coalesce(task, sig, deterministic) ==
    IF task.aborted THEN task
    ELSE IF sig = syscallbuf_desched_sig THEN Abort(task)
    ELSE SetStashFlags(
           [task EXCEPT
              !.stashed_signals =
                  Append(@, StashedSignal(task, Siginfo(sig), deterministic, "stash_sig")),
              !.stash_calls = @ + 1,
              !.last_stash = "queued"])

\* stash_sig with the supersede rule of stash_synthetic_sig: a deterministic
\* occurrence replaces a queued nondeterministic one, at the front.
stash_sig_supersede(task, sig, deterministic) ==
    LET pos == Min(QueuedAt(task, sig))
        queued == sig < SIGRTMIN /\ QueuedAt(task, sig) # {}
        supersedes ==
            /\ deterministic = "DeterministicSig"
            /\ task.stashed_signals[pos].deterministic = "NondeterministicSig"
        entry == StashedSignal(task, Siginfo(sig), deterministic, "stash_sig")
    IN  IF task.aborted THEN task
        ELSE IF sig = syscallbuf_desched_sig THEN Abort(task)
        ELSE IF queued /\ ~supersedes THEN [task EXCEPT !.last_stash = "dropped"]
        ELSE SetStashFlags(
               [task EXCEPT
                  !.stashed_signals =
                      IF queued THEN <<entry>> \o RemoveAt(@, pos) ELSE Append(@, entry),
                  !.stash_calls = @ + 1,
                  !.last_stash = IF queued THEN "superseded" ELSE "queued"])

\* RecordTask::stash_sig, where sig is maybe_stop_sig() and deterministic is
\* is_deterministic_signal(self).
stash_sig(task, sig, deterministic) ==
    IF task.aborted THEN task
    ELSE IF sig = syscallbuf_desched_sig THEN Abort(task)
    ELSE IF sig < SIGRTMIN /\ QueuedAt(task, sig) # {}
    THEN [task EXCEPT !.last_stash = "dropped"]
    ELSE SetStashFlags(
           [task EXCEPT
              !.stashed_signals =
                  Append(@, StashedSignal(task, Siginfo(sig), deterministic, "stash_sig")),
              !.stash_calls = @ + 1,
              !.last_stash = "queued"])

\* stash_synthetic_sig that replaces a queued entry whatever the two
\* determinism flags are.
stash_synthetic_sig_always_replace(task, si, deterministic) ==
    LET sig == si.si_signo
        kept ==
            IF sig < SIGRTMIN /\ QueuedAt(task, sig) # {}
            THEN RemoveAt(task.stashed_signals, Min(QueuedAt(task, sig)))
            ELSE task.stashed_signals
    IN  IF task.aborted THEN task
        ELSE IF sig <= 0 \/ sig = syscallbuf_desched_sig THEN Abort(task)
        ELSE SetStashFlags(
               [task EXCEPT
                  !.stashed_signals =
                      <<StashedSignal(task, si, deterministic, "stash_synthetic_sig")>> \o kept,
                  !.stash_calls = @ + 1,
                  !.last_stash =
                      IF kept = task.stashed_signals THEN "queued" ELSE "superseded"])

\* stash_synthetic_sig that queues at the back, as stash_sig does.
stash_synthetic_sig_push_back(task, si, deterministic) ==
    LET sig == si.si_signo
        pos == Min(QueuedAt(task, sig))
        supersedes ==
            /\ deterministic = "DeterministicSig"
            /\ task.stashed_signals[pos].deterministic = "NondeterministicSig"
        kept ==
            IF sig < SIGRTMIN /\ QueuedAt(task, sig) # {}
            THEN RemoveAt(task.stashed_signals, pos)
            ELSE task.stashed_signals
    IN  IF task.aborted THEN task
        ELSE IF sig <= 0 \/ sig = syscallbuf_desched_sig THEN Abort(task)
        ELSE IF sig < SIGRTMIN /\ QueuedAt(task, sig) # {} /\ ~supersedes
        THEN [task EXCEPT !.last_stash = "dropped"]
        ELSE SetStashFlags(
               [task EXCEPT
                  !.stashed_signals =
                      Append(kept, StashedSignal(task, si, deterministic, "stash_synthetic_sig")),
                  !.stash_calls = @ + 1,
                  !.last_stash =
                      IF kept = task.stashed_signals THEN "queued" ELSE "superseded"])

\* RecordTask::stash_synthetic_sig
stash_synthetic_sig(task, si, deterministic) ==
    LET sig == si.si_signo
        pos == Min(QueuedAt(task, sig))
        supersedes ==
            /\ deterministic = "DeterministicSig"
            /\ task.stashed_signals[pos].deterministic = "NondeterministicSig"
        kept ==
            IF sig < SIGRTMIN /\ QueuedAt(task, sig) # {}
            THEN RemoveAt(task.stashed_signals, pos)
            ELSE task.stashed_signals
    IN  IF task.aborted THEN task
        ELSE IF sig <= 0 \/ sig = syscallbuf_desched_sig THEN Abort(task)
        ELSE IF sig < SIGRTMIN /\ QueuedAt(task, sig) # {} /\ ~supersedes
        THEN [task EXCEPT !.last_stash = "dropped"]
        ELSE SetStashFlags(
               [task EXCEPT
                  !.stashed_signals =
                      <<StashedSignal(task, si, deterministic, "stash_synthetic_sig")>> \o kept,
                  !.stash_calls = @ + 1,
                  !.last_stash =
                      IF kept = task.stashed_signals THEN "queued" ELSE "superseded"])

\* RecordTask::has_any_stashed_sig
has_any_stashed_sig(task) == task.stashed_signals # <<>>

\* pop_stash_sig that removes the entry at the head, whichever is named.
pop_stash_sig_front(task, pos) ==
    IF task.aborted THEN task
    ELSE IF pos \in 1..Len(task.stashed_signals)
    THEN [task EXCEPT !.stashed_signals = Tail(@)]
    ELSE Abort(task)

\* RecordTask::pop_stash_sig.  `pos` is the position of the entry `stashed`
\* refers to, 0 when it refers to no entry of the queue.
pop_stash_sig(task, pos) ==
    IF task.aborted THEN task
    ELSE IF pos \in 1..Len(task.stashed_signals)
    THEN [task EXCEPT !.stashed_signals = RemoveAt(@, pos)]
    ELSE Abort(task)

\* stashed_signal_processed that clears the flags whatever the queue holds.
stashed_signal_processed_clear(task) ==
    IF task.aborted THEN task
    ELSE [task EXCEPT
            !.break_at_syscallbuf_final_instruction = FALSE,
            !.break_at_syscallbuf_traced_syscalls = FALSE,
            !.break_at_syscallbuf_untraced_syscalls = FALSE,
            !.stashed_signals_blocking_more_signals = FALSE]

\* RecordTask::stashed_signal_processed
stashed_signal_processed(task) ==
    IF task.aborted THEN task
    ELSE [task EXCEPT
            !.break_at_syscallbuf_final_instruction = has_any_stashed_sig(task),
            !.break_at_syscallbuf_traced_syscalls = has_any_stashed_sig(task),
            !.break_at_syscallbuf_untraced_syscalls = has_any_stashed_sig(task),
            !.stashed_signals_blocking_more_signals = has_any_stashed_sig(task)]

-----------------------------------------------------------------------------
(* The pending-event stack and the trace.                                  *)

\* seccomp_filter_rewriter::SECCOMP_MAGIC_SKIP_ORIGINAL_SYSCALLNO
SECCOMP_MAGIC_SKIP_ORIGINAL_SYSCALLNO == -2

\* RecordTask::ev: the event at the top of the stack.
ev(task) == task.pending_events[Len(task.pending_events)]

\* RecordTask::push_event
push_event(task, e) ==
    IF task.aborted THEN task
    ELSE [task EXCEPT !.pending_events = Append(@, e)]

\* RecordTask::push_syscall_event, for the tracee syscall sid.
push_syscall_event(task, no, sid) == push_event(task, SyscallEvent(no, sid))

\* pop_event without the assertion on the popped event's type.
pop_event_unchecked(task, expected_type) ==
    IF task.aborted THEN task
    ELSE IF task.pending_events = <<>> THEN Abort(task)
    ELSE [task EXCEPT !.pending_events = Front(@)]

\* RecordTask::pop_event: pop_back().unwrap(), then the assertion on the type
\* of the event that was popped.
pop_event(task, expected_type) ==
    IF task.aborted THEN task
    ELSE IF task.pending_events = <<>> THEN Abort(task)
    ELSE IF ev(task).type = expected_type
    THEN [task EXCEPT !.pending_events = Front(@)]
    ELSE Abort(task)

pop_noop(task) == pop_event(task, "EvNoop")

pop_desched(task) == pop_event(task, "EvDesched")

pop_seccomp_trap(task) == pop_event(task, "EvSeccompTrap")

pop_signal_delivery(task) == pop_event(task, "EvSignalDelivery")

pop_signal_handler(task) == pop_event(task, "EvSignalHandler")

pop_syscall(task) == pop_event(task, "EvSyscall")

pop_syscall_interruption(task) == pop_event(task, "EvSyscallInterruption")

\* ev_mut().syscall_mut().state = state
SetSyscallState(task, state) ==
    IF task.aborted THEN task
    ELSE [task EXCEPT !.pending_events[Len(task.pending_events)].state = state]

\* TraceWriter::write_frame: the frame of an event is the event.
write_frame(task, e) == [task EXCEPT !.trace = Append(@, e)]

\* The part of maybe_flush_syscallbuf that runs when the task has a buffer:
\* it drains the pending records of the buffer.  It writes a flush event
\* holding the first hdr_num_rec_bytes bytes of the buffer and remembers that
\* it flushed; a buffer that holds no record has nothing to drain.
flush_syscallbuf(task) ==
    IF task.hdr_num_rec_bytes = 0 THEN task
    ELSE [write_frame(task, PlainEvent("EvSyscallbufFlush")) EXCEPT
            !.flushed_num_rec_bytes = task.hdr_num_rec_bytes,
            !.flushed_syscallbuf = TRUE]

\* RecordTask::maybe_flush_syscallbuf
maybe_flush_syscallbuf(task) ==
    IF task.aborted THEN task
    ELSE IF ev(task).type = "EvSyscallbufFlush" THEN task
    ELSE IF ~task.syscallbuf_child THEN task
    ELSE flush_syscallbuf(task)

\* Task::reset_syscallbuf: zero the record count of the buffer.
reset_syscallbuf(task) == [task EXCEPT !.hdr_num_rec_bytes = 0]

\* record_event that never resets the syscallbuf.
record_event_no_reset(task, e, flush, reset) ==
    IF task.aborted THEN task
    ELSE write_frame(IF flush = "FlushSyscallbuf" THEN maybe_flush_syscallbuf(task)
                     ELSE task, e)

RECURSIVE record_event(_, _, _, _)

\* maybe_reset_syscallbuf that resets a flushed buffer whatever the delay
\* flags hold.
maybe_reset_syscallbuf_ignore_delay(task) ==
    IF task.aborted THEN task
    ELSE IF task.flushed_syscallbuf
    THEN record_event(
           [reset_syscallbuf([task EXCEPT !.flushed_syscallbuf = FALSE]) EXCEPT
               !.syscallbuf_blocked_sigs_generation = 0],
           PlainEvent("EvSyscallbufReset"), "FlushSyscallbuf", "AllowResetSyscallbuf")
    ELSE task

\* maybe_reset_syscallbuf that leaves flushed_syscallbuf set when it issues
\* the record_event of the reset event.
maybe_reset_syscallbuf_keep_flushed(task) ==
    IF task.aborted THEN task
    ELSE IF /\ task.flushed_syscallbuf
            /\ ~task.delay_syscallbuf_reset_for_desched
            /\ ~task.delay_syscallbuf_reset_for_seccomp_trap
    THEN record_event(
           [reset_syscallbuf(task) EXCEPT !.syscallbuf_blocked_sigs_generation = 0],
           PlainEvent("EvSyscallbufReset"), "FlushSyscallbuf", "AllowResetSyscallbuf")
    ELSE task

\* RecordTask::maybe_reset_syscallbuf
maybe_reset_syscallbuf(task) ==
    IF task.aborted THEN task
    ELSE IF /\ task.flushed_syscallbuf
            /\ ~task.delay_syscallbuf_reset_for_desched
            /\ ~task.delay_syscallbuf_reset_for_seccomp_trap
    THEN record_event(
           [reset_syscallbuf([task EXCEPT !.flushed_syscallbuf = FALSE]) EXCEPT
               !.syscallbuf_blocked_sigs_generation = 0],
           PlainEvent("EvSyscallbufReset"), "FlushSyscallbuf", "AllowResetSyscallbuf")
    ELSE task

\* RecordTask::record_event(Some(e), Some(flush), Some(reset), None)
record_event(task, e, flush, reset) ==
    IF task.aborted THEN task
    ELSE LET flushed ==
                 IF flush = "FlushSyscallbuf" THEN maybe_flush_syscallbuf(task) ELSE task
             written == write_frame(flushed, e)
         IN  IF ~has_ticks_slop(e) /\ reset = "AllowResetSyscallbuf"
             THEN IF flush = "FlushSyscallbuf"
                  THEN maybe_reset_syscallbuf(written)
                  ELSE Abort(written)
             ELSE written

\* RecordTask::record_current_event
record_current_event(task) ==
    IF task.aborted THEN task
    ELSE record_event(task, ev(task), "FlushSyscallbuf", "AllowResetSyscallbuf")

\* record_session::note_entering_syscall
note_entering_syscall(task) == SetSyscallState(task, "EnteringSyscall")

\* record_session::rec_abort_prepared_syscall: it discards prepared scratch
\* state, none of which the model holds.
rec_abort_prepared_syscall(task) == task

\* The siginfo handle_seccomp_trap builds, with _sigsys._arch always
\* AUDIT_ARCH_X86_64.
SigsysInfo_x86_64(arch, seccomp_data, syscallno) ==
    [si_signo |-> SIGSYS, si_errno |-> seccomp_data, si_code |-> "SYS_SECCOMP",
     sigsys_syscall |-> syscallno, sigsys_arch |-> "AUDIT_ARCH_X86_64",
     sival_int |-> 0]

\* The siginfo handle_seccomp_trap builds for a tracee of architecture arch.
SigsysInfo(arch, seccomp_data, syscallno) ==
    [si_signo |-> SIGSYS, si_errno |-> seccomp_data, si_code |-> "SYS_SECCOMP",
     sigsys_syscall |-> syscallno,
     sigsys_arch |-> IF arch = "X86" THEN "AUDIT_ARCH_I386" ELSE "AUDIT_ARCH_X86_64",
     sival_int |-> 0]

\* RecordTask::maybe_restore_original_syscall_registers
maybe_restore_original_syscall_registers(task) ==
    IF task.aborted THEN task
    ELSE IF ~task.original_syscall_parameters.set THEN task
    ELSE IF task.original_syscall_parameters.no # task.regs.syscallno THEN task
    ELSE [task EXCEPT !.regs.args = task.original_syscall_parameters.args]

\* The tracee syscall a seccomp trap is taken in: the one of the syscall event
\* at the top of the stack, or else a syscall no event stands for yet.
TrappedSid(task) ==
    IF is_syscall_event(ev(task)) THEN ev(task).sid ELSE task.next_sid

\* handle_seccomp_trap, lines 838-855: cancel the syscall event that was
\* already pushed.
CancelPushedSyscall(task, syscallno) ==
    IF task.aborted \/ ~is_syscall_event(ev(task)) THEN task
    ELSE IF ev(task).number # syscallno THEN Abort(task)
    ELSE IF ev(task).type = "EvSyscallInterruption"
    THEN pop_syscall_interruption(rec_abort_prepared_syscall(task))
    ELSE pop_syscall(rec_abort_prepared_syscall(task))

\* DelayResetForTrap that leaves delay_syscallbuf_reset_for_seccomp_trap clear.
DelayResetForTrap_no_delay(task) ==
    IF task.aborted THEN task
    ELSE IF task.delay_syscallbuf_reset_for_seccomp_trap THEN Abort(task)
    ELSE [push_event(task, PlainEvent("EvSeccompTrap"))
            EXCEPT !.hdr_desched_signal_may_be_relevant = FALSE]

\* handle_seccomp_trap, lines 857-876: delay the reset of the syscallbuf.
DelayResetForTrap(task) ==
    IF task.aborted THEN task
    ELSE IF task.delay_syscallbuf_reset_for_seccomp_trap THEN Abort(task)
    ELSE [push_event([task EXCEPT !.delay_syscallbuf_reset_for_seccomp_trap = TRUE],
                     PlainEvent("EvSeccompTrap"))
            EXCEPT !.hdr_desched_signal_may_be_relevant = FALSE]

\* handle_seccomp_trap, lines 914-929: record the exit of a buffered syscall.
RecordTrapExit(task) ==
    pop_syscall(record_current_event(SetSyscallState(task, "ExitingSyscall")))

\* handle_seccomp_trap that records the entry of the syscall also when an
\* entry frame was written before the trap.
handle_seccomp_trap_entry_again(task, in_untraced_syscall, syscallno, seccomp_data) ==
    LET sid == TrappedSid(task)
        skipped == [task EXCEPT
                      !.regs.original_syscallno = SECCOMP_MAGIC_SKIP_ORIGINAL_SYSCALLNO,
                      !.next_sid = IF is_syscall_event(ev(task)) THEN @ ELSE @ + 1]
        cancelled == CancelPushedSyscall(skipped, syscallno)
        delayed == IF in_untraced_syscall THEN DelayResetForTrap(cancelled) ELSE cancelled
        pushed == push_syscall_event(delayed, syscallno, sid)
        entering ==
            note_entering_syscall(
              IF pushed.aborted THEN pushed
              ELSE [pushed EXCEPT
                      !.pending_events[Len(pushed.pending_events)].failed_during_preparation = TRUE])
        entered == IF in_untraced_syscall THEN record_current_event(entering) ELSE entering
        stashed == stash_synthetic_sig(entered,
                                       SigsysInfo(task.arch, seccomp_data, syscallno),
                                       "DeterministicSig")
        restored == maybe_restore_original_syscall_registers(
                      IF stashed.aborted THEN stashed
                      ELSE [stashed EXCEPT !.regs.syscallno = syscallno])
        exited == IF in_untraced_syscall THEN RecordTrapExit(restored) ELSE restored
    IN  IF task.aborted THEN task
        ELSE IF exited.aborted THEN exited
        ELSE [exited EXCEPT !.continue_type = "DontContinue"]

\* record_session::handle_seccomp_trap.  in_untraced_syscall is
\* t.is_in_untraced_syscall(), which the handler does not change, and
\* syscallno the original_syscallno register of the tracee at the stop.
handle_seccomp_trap(task, in_untraced_syscall, syscallno, seccomp_data) ==
    LET sid == TrappedSid(task)
        syscall_entry_already_recorded ==
            is_syscall_event(ev(task)) /\ ev(task).type # "EvSyscallInterruption"
        skipped == [task EXCEPT
                      !.regs.original_syscallno = SECCOMP_MAGIC_SKIP_ORIGINAL_SYSCALLNO,
                      !.next_sid = IF is_syscall_event(ev(task)) THEN @ ELSE @ + 1]
        cancelled == CancelPushedSyscall(skipped, syscallno)
        delayed == IF in_untraced_syscall THEN DelayResetForTrap(cancelled) ELSE cancelled
        pushed == push_syscall_event(delayed, syscallno, sid)
        entering ==
            note_entering_syscall(
              IF pushed.aborted THEN pushed
              ELSE [pushed EXCEPT
                      !.pending_events[Len(pushed.pending_events)].failed_during_preparation = TRUE])
        entered ==
            IF in_untraced_syscall /\ ~syscall_entry_already_recorded
            THEN record_current_event(entering)
            ELSE entering
        stashed == stash_synthetic_sig(entered,
                                       SigsysInfo(task.arch, seccomp_data, syscallno),
                                       "DeterministicSig")
        restored == maybe_restore_original_syscall_registers(
                      IF stashed.aborted THEN stashed
                      ELSE [stashed EXCEPT !.regs.syscallno = syscallno])
        exited == IF in_untraced_syscall THEN RecordTrapExit(restored) ELSE restored
    IN  IF task.aborted THEN task
        ELSE IF exited.aborted THEN exited
        ELSE [exited EXCEPT !.continue_type = "DontContinue"]

-----------------------------------------------------------------------------
(* The calls on the stashed-signal queue.                                  *)

\* The signals the stash calls of the model are made with.
StashSigs == {SIGUSR1, SIGCHLD, SIGRT2, syscallbuf_desched_sig}

\* A stash call is made while the task lives and its result is within the
\* bounds of the model.
CanStash(next) ==
    /\ ~t.aborted
    /\ Len(next.stashed_signals) <= MaxStash
    /\ next.stash_calls <= MaxStashCalls

StashSig ==
    \E sig \in StashSigs, d \in Determinism :
        /\ CanStash(stash_sig(t, sig, d))
        /\ t' = stash_sig(t, sig, d)
        /\ op' = <<"stash_sig", sig, d>>
        /\ ret' = "none"

StashSyntheticSig ==
    \E sig \in StashSigs, d \in Determinism :
        /\ CanStash(stash_synthetic_sig(t, Siginfo(sig), d))
        /\ t' = stash_synthetic_sig(t, Siginfo(sig), d)
        /\ op' = <<"stash_synthetic_sig", sig, d>>
        /\ ret' = "none"

PopStashSig ==
    \E pos \in 0..Len(t.stashed_signals) :
        /\ ~t.aborted
        /\ t' = pop_stash_sig(t, pos)
        /\ op' = <<"pop_stash_sig", pos>>
        /\ ret' = "none"

StashedSignalProcessed ==
    /\ ~t.aborted
    /\ t' = stashed_signal_processed(t)
    /\ op' = <<"stashed_signal_processed">>
    /\ ret' = "none"

Init ==
    /\ t = NewTask
    /\ op = <<"new">>
    /\ ret = "none"

NextStash ==
    \/ StashSig
    \/ StashSyntheticSig
    \/ PopStashSig
    \/ StashedSignalProcessed

\* The stashed-signal queue of one task under every sequence of its calls.
SpecStash == Init /\ [][NextStash]_vars

-----------------------------------------------------------------------------
(* The calls on the pending-event stack.                                   *)

\* The syscall numbers and the seccomp filter data of the model.
Syscallnos == {0, 1}
SeccompData == {0, 1}

\* The events push_event is called with: an event of a kind a pop_* helper
\* pops, a syscall event and a syscall-interruption event for a syscall the
\* tracee starts.
PushedEvents ==
    {PlainEvent(type) :
        type \in {"EvNoop", "EvDesched", "EvSeccompTrap", "EvSignalDelivery",
                  "EvSignalHandler"}}
    \cup {SyscallEvent(no, t.next_sid) : no \in Syscallnos}
    \cup {SyscallInterruptionEvent(no, t.next_sid) : no \in Syscallnos}

\* A call is made while the task lives and its result is within the bounds of
\* the model.
CanCall(next) ==
    /\ ~t.aborted
    /\ Len(next.pending_events) <= MaxDepth
    /\ Len(next.trace) <= MaxTrace
    /\ next.next_sid <= MaxSyscalls + 1

Call(next, name) ==
    /\ CanCall(next)
    /\ t' = next
    /\ op' = name
    /\ ret' = "none"

\* RecordTask::init_buffers: the task gets its syscallbuf.
InitBuffers ==
    /\ ~t.syscallbuf_child
    /\ Call([t EXCEPT !.syscallbuf_child = TRUE], <<"init_buffers">>)

PushEvent ==
    \E e \in PushedEvents :
        Call([push_event(t, e) EXCEPT !.next_sid = IF e.sid = 0 THEN @ ELSE @ + 1],
             <<"push_event">>)

\* The syscall-entry stop of record_step: push the syscall event, note the
\* entry and record it.
EnterSyscall ==
    \E no \in Syscallnos :
        Call(record_current_event(
               note_entering_syscall(
                 [push_syscall_event(t, no, t.next_sid) EXCEPT !.next_sid = @ + 1])),
             <<"enter_syscall">>)

PopNoop == Call(pop_noop(t), <<"pop_noop">>)

PopDesched == Call(pop_desched(t), <<"pop_desched">>)

PopSeccompTrap == Call(pop_seccomp_trap(t), <<"pop_seccomp_trap">>)

PopSignalDelivery == Call(pop_signal_delivery(t), <<"pop_signal_delivery">>)

PopSignalHandler == Call(pop_signal_handler(t), <<"pop_signal_handler">>)

PopSyscall == Call(pop_syscall(t), <<"pop_syscall">>)

PopSyscallInterruption ==
    Call(pop_syscall_interruption(t), <<"pop_syscall_interruption">>)

HandleSeccompTrap ==
    \E in_untraced_syscall \in BOOLEAN, no \in Syscallnos, data \in SeccompData :
        /\ in_untraced_syscall => t.syscallbuf_child
        /\ Call(handle_seccomp_trap(t, in_untraced_syscall, no, data),
                <<"handle_seccomp_trap", in_untraced_syscall, no, data>>)

NextEvents ==
    \/ InitBuffers
    \/ PushEvent
    \/ EnterSyscall
    \/ PopNoop
    \/ PopDesched
    \/ PopSeccompTrap
    \/ PopSignalDelivery
    \/ PopSignalHandler
    \/ PopSyscall
    \/ PopSyscallInterruption
    \/ HandleSeccompTrap

\* The pending-event stack and the trace of one task under every sequence of
\* its calls.
SpecEvents == Init /\ [][NextEvents]_vars

-----------------------------------------------------------------------------
(* Signal dispositions and the cached signal mask.                         *)

\* RecordTask::signal_has_user_handler
signal_has_user_handler(task, sig) ==
    disposition(task.sighandlers[sig]) = "SignalHandler"

\* RecordTask::get_signal_user_handler
get_signal_user_handler(task, sig) == get_user_handler(task.sighandlers[sig])

\* RecordTask::signal_handler_takes_siginfo
signal_handler_takes_siginfo(task, sig) == task.sighandlers[sig].takes_siginfo

\* RecordTask::signal_action
signal_action(task, sig) == task.sighandlers[sig].sa

\* RecordTask::sig_disposition
sig_disposition(task, sig) == disposition(task.sighandlers[sig])

\* RecordTask::invalidate_sigmask
invalidate_sigmask(task) == [task EXCEPT !.blocked_sigs_dirty = TRUE]

\* RecordTask::at_may_restart_syscall
at_may_restart_syscall(task) ==
    LET depth == Len(task.pending_events)
    IN  \/ ev(task).type = "EvSyscallInterruption"
        \/ /\ ev(task).type = "EvSignalDelivery"
           /\ depth > 2
           /\ task.pending_events[depth - 1].type = "EvSyscallInterruption"

\* read_sigmask_from_process that asks PTRACE_GETSIGMASK in every state.
read_sigmask_from_process_ptrace_first(task) ==
    IF ~task.getsigmask_fails
    THEN [ret |-> task.ptrace_sigmask, read |-> "ptrace"]
    ELSE [ret |-> task.kernel_sigmask, read |-> "proc"]

\* RecordTask::read_sigmask_from_process: the mask it returns (ret) and where
\* it read it (read): with PTRACE_GETSIGMASK, or in the SigBlk field of
\* /proc/<tid>/status.
read_sigmask_from_process(task) ==
    IF ~at_may_restart_syscall(task) /\ ~task.getsigmask_fails
    THEN [ret |-> task.ptrace_sigmask, read |-> "ptrace"]
    ELSE [ret |-> task.kernel_sigmask, read |-> "proc"]

\* get_sigmask that reads the mask from the process at every call.
get_sigmask_uncached(task) ==
    [ret |-> read_sigmask_from_process(task).ret,
     read |-> read_sigmask_from_process(task).read,
     task |-> [task EXCEPT !.blocked_sigs = read_sigmask_from_process(task).ret,
                           !.blocked_sigs_source = read_sigmask_from_process(task).read,
                           !.blocked_sigs_dirty = FALSE]]

\* RecordTask::get_sigmask: the mask it returns (ret), where it read it (read,
\* "none" when it read nothing) and the task it leaves.
get_sigmask(task) ==
    IF task.blocked_sigs_dirty
    THEN [ret |-> read_sigmask_from_process(task).ret,
          read |-> read_sigmask_from_process(task).read,
          task |-> [task EXCEPT !.blocked_sigs = read_sigmask_from_process(task).ret,
                                !.blocked_sigs_source = read_sigmask_from_process(task).read,
                                !.blocked_sigs_dirty = FALSE]]
    ELSE [ret |-> task.blocked_sigs, read |-> "none", task |-> task]

\* is_sig_blocked without the test for the unstoppable signals.
is_sig_blocked_stoppable(task, sig) ==
    [ret |-> (sig - 1) \in get_sigmask(task).ret, task |-> get_sigmask(task).task]

\* RecordTask::is_sig_blocked: what it returns (ret) and the task it leaves.
is_sig_blocked(task, sig) ==
    IF is_unstoppable_signal(sig)
    THEN [ret |-> FALSE, task |-> task]
    ELSE [ret |-> (sig - 1) \in get_sigmask(task).ret, task |-> get_sigmask(task).task]

\* RecordTask::is_sig_ignored
is_sig_ignored(task, sig) ==
    IF is_unstoppable_signal(sig) THEN FALSE
    ELSE CASE disposition(task.sighandlers[sig]) = "SignalIgnore" -> TRUE
           [] disposition(task.sighandlers[sig]) = "SignalDefault" ->
                default_action(sig) = "Ignore"
           [] disposition(task.sighandlers[sig]) = "SignalHandler" -> FALSE

\* is_fatal_signal that lets a deterministic signal be ignored.
is_fatal_signal_ignorable(task, sig, deterministic) ==
    IF task.received_sigframe_sigsegv THEN TRUE
    ELSE IF default_action(sig) # "DumpCore" /\ default_action(sig) # "Terminate" THEN FALSE
    ELSE IF is_sig_ignored(task, sig) THEN FALSE
    ELSE ~signal_has_user_handler(task, sig)

\* RecordTask::is_fatal_signal
is_fatal_signal(task, sig, deterministic) ==
    IF task.received_sigframe_sigsegv THEN TRUE
    ELSE IF default_action(sig) # "DumpCore" /\ default_action(sig) # "Terminate" THEN FALSE
    ELSE IF is_sig_ignored(task, sig) THEN deterministic = "DeterministicSig"
    ELSE ~signal_has_user_handler(task, sig)

\* RecordTask::sig_resolved_disposition: what it returns (ret) and the task it
\* leaves.  is_sig_blocked is called only for a signal that is not fatal and
\* has a user handler.
sig_resolved_disposition(task, sig, deterministic) ==
    IF is_fatal_signal(task, sig, deterministic)
    THEN [ret |-> "DispositionFatal", task |-> task]
    ELSE IF signal_has_user_handler(task, sig)
    THEN [ret |-> IF is_sig_blocked(task, sig).ret THEN "DispositionIgnored"
                  ELSE "DispositionUserHandler",
          task |-> is_sig_blocked(task, sig).task]
    ELSE [ret |-> "DispositionIgnored", task |-> task]

\* The new action of a sigaction call, as update_sigaction_arch reads it at
\* arg2: the kernel_sigaction, and the bytes init_arch copies.
NewAction(ksa, copied) == [ksa |-> ksa, copied |-> copied]

\* A new action of the given disposition, with no flag set.
ActionOf(d) ==
    NewAction(KernelSigaction(CASE d = "SignalDefault" -> SIG_DFL
                                [] d = "SignalIgnore" -> SIG_IGN
                                [] d = "SignalHandler" -> 2,
                              FALSE, FALSE), <<0>>)

\* RecordTask::update_sigaction_arch for a sigaction call that returned 0 with
\* a new action: the entry of sig is initialised from the new action, through
\* borrow_mut() on the table the task refers to.  No signal is left out.
update_sigaction(task, sig, new_action) ==
    [task EXCEPT !.sighandlers[sig] =
                     init_arch(@, new_action.ksa, new_action.copied)]

\* RecordTask::did_set_sig_handler_default
did_set_sig_handler_default(task, sig, copied) ==
    [task EXCEPT !.sighandlers[sig] = reset_arch(@, copied)]

\* RecordTask::set_robust_list
set_robust_list(task, list, len) ==
    [task EXCEPT !.robust_futex_list = list, !.robust_futex_list_len = len]

\* RecordTask::robust_list, RecordTask::robust_list_len
robust_list(task) == task.robust_futex_list
robust_list_len(task) == task.robust_futex_list_len

\* The syscalls at whose exit on_syscall_exit_arch invalidates the mask.
SigmaskSyscalls ==
    {"SIGSUSPEND", "RT_SIGSUSPEND", "SIGPROCMASK", "RT_SIGPROCMASK",
     "PSELECT6", "PSELECT6_TIME64", "PPOLL", "PPOLL_TIME64"}

\* The registers on_syscall_exit_arch reads at the exit of a syscall that
\* was not skipped: `failed` is regs.syscall_failed(), new_action the action
\* arg2 points to at the exit of a sigaction ("null" where arg2 is null).
ExitRegs(failed, arg1, arg2, new_action) ==
    [original_syscallno |-> 0, failed |-> failed, arg1 |-> arg1, arg2 |-> arg2,
     new_action |-> new_action]

\* on_syscall_exit_arch that follows a set_robust_list that failed.
on_syscall_exit_arch_failed_robust_list(task, sys, regs) ==
    IF regs.original_syscallno = SECCOMP_MAGIC_SKIP_ORIGINAL_SYSCALLNO THEN task
    ELSE IF sys = "SET_ROBUST_LIST"
    THEN set_robust_list(task, regs.arg1, regs.arg2)
    ELSE task

\* RecordTask::on_syscall_exit_arch
on_syscall_exit_arch(task, sys, regs) ==
    IF \/ regs.original_syscallno = SECCOMP_MAGIC_SKIP_ORIGINAL_SYSCALLNO
       \/ regs.failed
    THEN task
    ELSE IF sys = "SET_ROBUST_LIST"
    THEN set_robust_list(task, regs.arg1, regs.arg2)
    ELSE IF sys \in {"SIGACTION", "RT_SIGACTION"}
    THEN IF regs.arg2 # 0
         THEN update_sigaction(task, regs.arg1, regs.new_action)
         ELSE task
    ELSE IF sys = "SET_TID_ADDRESS"
    THEN [task EXCEPT !.tid_futex = regs.arg1]
    ELSE IF sys \in SigmaskSyscalls
    THEN invalidate_sigmask(task)
    ELSE task

\* The exit of a sigprocmask call that set the mask of the tracee to `mask`:
\* outside an interrupted syscall PTRACE_GETSIGMASK and SigBlk agree.
on_syscall_exit_sigprocmask(task, mask) ==
    on_syscall_exit_arch([task EXCEPT !.kernel_sigmask = mask, !.ptrace_sigmask = mask],
                         "SIGPROCMASK", ExitRegs(FALSE, 0, 0, "null"))

\* RecordTask::unblock_signal.  errno is the outcome of PTRACE_SETSIGMASK:
\* "ok", or the error it failed with; EIO is fatal and any error but EINVAL
\* fails the assertion.
unblock_signal(task, sig, errno) ==
    IF task.aborted THEN task
    ELSE IF errno \notin {"ok", "EINVAL"} THEN Abort(task)
    ELSE IF errno = "EINVAL" THEN invalidate_sigmask(get_sigmask(task).task)
    ELSE invalidate_sigmask(
           [get_sigmask(task).task EXCEPT
              !.kernel_sigmask = get_sigmask(task).ret \ {sig - 1},
              !.ptrace_sigmask = get_sigmask(task).ret \ {sig - 1}])

-----------------------------------------------------------------------------
(* The calls on the dispositions and the signal mask.                      *)

\* The signals the disposition calls of the model are made with.
DispSigs == {SIGKILL, SIGSTOP, SIGUSR1, SIGSEGV, SIGCHLD}

\* The entries of the handler table that a sigaction call has set.
Handled(task) ==
    {sig \in DOMAIN task.sighandlers : task.sighandlers[sig] # NewSighandler}

UpdateSigaction ==
    \E sig \in DispSigs, d \in Dispositions :
        /\ ~t.aborted
        /\ Cardinality(Handled(update_sigaction(t, sig, ActionOf(d)))) <= MaxHandlers
        /\ t' = update_sigaction(t, sig, ActionOf(d))
        /\ op' = <<"update_sigaction">>
        /\ ret' = "none"

Sigprocmask ==
    \E mask \in SUBSET MaskBits :
        /\ ~t.aborted
        /\ t' = on_syscall_exit_sigprocmask(t, mask)
        /\ op' = <<"sigprocmask">>
        /\ ret' = "none"

\* The thread group of the task receives a SIGSEGV raised by a failure to set
\* up a signal frame.
ReceiveSigframeSigsegv ==
    /\ ~t.received_sigframe_sigsegv
    /\ t' = [t EXCEPT !.received_sigframe_sigsegv = TRUE]
    /\ op' = <<"received_sigframe_sigsegv">>
    /\ ret' = "none"

IsSigBlocked ==
    \E sig \in DispSigs :
        /\ t' = is_sig_blocked(t, sig).task
        /\ op' = <<"is_sig_blocked", sig>>
        /\ ret' = is_sig_blocked(t, sig).ret

IsSigIgnored ==
    \E sig \in DispSigs :
        /\ t' = t
        /\ op' = <<"is_sig_ignored", sig>>
        /\ ret' = is_sig_ignored(t, sig)

SigResolvedDisposition ==
    \E sig \in DispSigs, deterministic \in Determinism :
        /\ t' = sig_resolved_disposition(t, sig, deterministic).task
        /\ op' = <<"sig_resolved_disposition", sig, deterministic>>
        /\ ret' = sig_resolved_disposition(t, sig, deterministic).ret

NextDisp ==
    \/ UpdateSigaction
    \/ Sigprocmask
    \/ ReceiveSigframeSigsegv
    \/ IsSigBlocked
    \/ IsSigIgnored
    \/ SigResolvedDisposition

\* The dispositions and the signal mask of one task under every sequence of
\* its calls.
SpecDisp == Init /\ [][NextDisp]_vars

-----------------------------------------------------------------------------
(* The calls on the cached signal mask.                                    *)

\* The values of a signal mask while the cache is followed.
MaskValues == SUBSET {SIGUSR1 - 1}

\* The syscalls whose exit the tracer is told of.
ExitSyscalls == SigmaskSyscalls \cup {"GETPID"}

\* The syscalls that return a failure after a signal interrupted them, when
\* the handler of the signal may have left another mask.
InterruptibleSyscalls ==
    {"SIGSUSPEND", "RT_SIGSUSPEND", "PSELECT6", "PSELECT6_TIME64", "PPOLL", "PPOLL_TIME64"}

GetSigmask ==
    /\ ~t.aborted
    /\ t' = get_sigmask(t).task
    /\ op' = <<"get_sigmask", get_sigmask(t).read>>
    /\ ret' = get_sigmask(t).ret

InvalidateSigmask ==
    /\ ~t.aborted
    /\ t' = invalidate_sigmask(t)
    /\ op' = <<"invalidate_sigmask">>
    /\ ret' = "none"

\* The exit of a syscall of the tracee.  A call that succeeded, or one a
\* signal interrupted, may have left any mask; a skipped call and a call that
\* failed otherwise left the mask alone.
OnSyscallExit ==
    \E sys \in ExitSyscalls, failed \in BOOLEAN, skipped \in BOOLEAN, mask \in MaskValues :
        /\ ~t.aborted
        /\ (skipped \/ sys \notin SigmaskSyscalls) => mask = t.kernel_sigmask
        /\ (failed /\ sys \notin InterruptibleSyscalls) => mask = t.kernel_sigmask
        /\ t' = on_syscall_exit_arch(
                  [t EXCEPT !.kernel_sigmask = mask,
                            !.ptrace_sigmask = IF mask = t.kernel_sigmask THEN @ ELSE mask],
                  sys,
                  [ExitRegs(failed, 0, 0, "null") EXCEPT
                     !.original_syscallno =
                        IF skipped THEN SECCOMP_MAGIC_SKIP_ORIGINAL_SYSCALLNO ELSE 0])
        /\ op' = <<"on_syscall_exit", sys, failed, skipped>>
        /\ ret' = "none"

UnblockSignal ==
    \E errno \in {"ok", "EINVAL", "EIO"} :
        /\ ~t.aborted
        /\ t' = unblock_signal(t, SIGUSR1, errno)
        /\ op' = <<"unblock_signal", errno>>
        /\ ret' = "none"

\* The tracee enters a syscall that runs under a temporary mask: SigBlk shows
\* the temporary mask, PTRACE_GETSIGMASK the mask that will be restored.
TemporaryMask ==
    \E mask \in MaskValues :
        /\ ~t.aborted
        /\ mask # t.kernel_sigmask
        /\ t' = [t EXCEPT !.kernel_sigmask = mask]
        /\ op' = <<"temporary_mask">>
        /\ ret' = "none"

\* PTRACE_GETSIGMASK starts to fail.
GetsigmaskFails ==
    /\ ~t.aborted
    /\ ~t.getsigmask_fails
    /\ t' = [t EXCEPT !.getsigmask_fails = TRUE]
    /\ op' = <<"getsigmask_fails">>
    /\ ret' = "none"

\* The tracer pushes the event of an interrupted syscall, or of the delivery
\* of a signal.
PushRestartEvent ==
    \E e \in {SyscallInterruptionEvent(0, 0), PlainEvent("EvSignalDelivery")} :
        /\ ~t.aborted
        /\ Len(t.pending_events) < MaxRestartDepth
        /\ t' = push_event(t, e)
        /\ op' = <<"push_event">>
        /\ ret' = "none"

PopRestartEvent ==
    /\ ~t.aborted
    /\ Len(t.pending_events) > 1
    /\ t' = pop_event(t, ev(t).type)
    /\ op' = <<"pop_event">>
    /\ ret' = "none"

NextMask ==
    \/ GetSigmask
    \/ InvalidateSigmask
    \/ OnSyscallExit
    \/ UnblockSignal
    \/ TemporaryMask
    \/ GetsigmaskFails
    \/ PushRestartEvent
    \/ PopRestartEvent

\* The cached signal mask of one task under every sequence of its calls.
SpecMask == Init /\ [][NextMask]_vars

-----------------------------------------------------------------------------
(* The check of the signal state against /proc/<tid>/status.               *)

\* The signals the loop of verify_signal_states visits.
VerifiedSigs == ModelSigs

\* The bits the SigIgn and SigCgt fields of the model may hold.
StatusBits == {SIGKILL - 1, SIGUSR1 - 1}

\* The three assertions verify_signal_states makes for sig hold; blocked,
\* ignored and caught are the SigBlk, SigIgn and SigCgt fields.  For an
\* unstoppable signal each assertion is that the bit of the signal is set.
SignalStateAsserted(task, sig, blocked, ignored, caught) ==
    IF is_unstoppable_signal(sig)
    THEN /\ (sig - 1) \in blocked
         /\ (sig - 1) \in ignored
         /\ (sig - 1) \in caught
    ELSE /\ ((sig - 1) \in blocked) = is_sig_blocked(task, sig).ret
         /\ ((sig - 1) \in ignored) = (sig_disposition(task, sig) = "SignalIgnore")
         /\ ((sig - 1) \in caught) = (sig_disposition(task, sig) = "SignalHandler")

\* RecordTask::verify_signal_states, as built with debug assertions.  The
\* calls of is_sig_blocked leave the cache of the mask refreshed.
verify_signal_states(task, blocked, ignored, caught) ==
    IF task.aborted THEN task
    ELSE IF is_syscall_event(ev(task)) THEN task
    ELSE IF \E sig \in VerifiedSigs :
                ~SignalStateAsserted(task, sig, blocked, ignored, caught)
    THEN Abort(task)
    ELSE get_sigmask(task).task

\* The tracer checks the signal state of the task; SigBlk is the mask of the
\* tracee in the kernel.
VerifySignalStates ==
    \E ignored \in SUBSET StatusBits, caught \in SUBSET StatusBits :
        /\ ~t.aborted
        /\ t' = verify_signal_states(t, t.kernel_sigmask, ignored, caught)
        /\ op' = <<"verify_signal_states", t.kernel_sigmask, ignored, caught>>
        /\ ret' = "none"

NextVerify ==
    \/ UpdateSigaction
    \/ Sigprocmask
    \/ PushRestartEvent
    \/ PopRestartEvent
    \/ VerifySignalStates

\* The signal state of one task and the checks of it against the kernel.
SpecVerify == Init /\ [][NextVerify]_vars

-----------------------------------------------------------------------------
(* The syscallbuf: flushing and resetting.                                 *)

\* The most bytes of records the buffer of the model holds.
MaxRecBytes == 1

\* RecordTask::did_wait.  in_critical_section, generation and mask are the
\* in_sigprocmask_critical_section, blocked_sigs_generation and blocked_sigs
\* fields of the syscallbuf header the tracee shares.
did_wait(task, in_critical_section, generation, mask) ==
    IF task.aborted THEN task
    ELSE IF task.stashed_signals_blocking_more_signals
    THEN IF task.blocked_sigs_dirty THEN Abort(task)
         ELSE [task EXCEPT !.kernel_sigmask = task.blocked_sigs,
                           !.ptrace_sigmask = task.blocked_sigs]
    ELSE IF ~task.syscallbuf_child THEN task
    ELSE IF in_critical_section THEN invalidate_sigmask(task)
    ELSE IF generation > task.syscallbuf_blocked_sigs_generation
    THEN [task EXCEPT !.syscallbuf_blocked_sigs_generation = generation,
                      !.blocked_sigs = mask]
    ELSE task

\* The events record_event is called with: one with a reliable tick count and
\* one without.
RecordedEvents == {PlainEvent("EvNoop"), PlainEvent("EvDesched")}

\* The tracee commits the record of a buffered syscall to its syscallbuf.
BufferSyscall ==
    /\ t.syscallbuf_child
    /\ t.hdr_num_rec_bytes < MaxRecBytes
    /\ Call([t EXCEPT !.hdr_num_rec_bytes = @ + 1], <<"buffer_syscall">>)

DidWait ==
    \E in_critical_section \in BOOLEAN, generation \in {0, 1} :
        Call(did_wait(t, in_critical_section, generation, {}), <<"did_wait">>)

\* The desched event of a buffered syscall is armed or disarmed: the reset of
\* the buffer is delayed while it is armed.
DelayResetForDesched ==
    \E delay \in BOOLEAN :
        /\ t.syscallbuf_child
        /\ delay # t.delay_syscallbuf_reset_for_desched
        /\ Call([t EXCEPT !.delay_syscallbuf_reset_for_desched = delay],
                <<"delay_reset_for_desched", delay>>)

\* The buffered syscall a seccomp trap aborted has completed.
SeccompTrapSlotDone ==
    /\ t.delay_syscallbuf_reset_for_seccomp_trap
    /\ Call([t EXCEPT !.delay_syscallbuf_reset_for_seccomp_trap = FALSE],
            <<"seccomp_trap_slot_done">>)

RecordEvent ==
    \E e \in RecordedEvents,
       flush \in {"FlushSyscallbuf", "DontFlushSyscallbuf"},
       reset \in {"AllowResetSyscallbuf", "DontResetSyscallbuf"} :
        Call(record_event(t, e, flush, reset), <<"record_event", e.type, flush, reset>>)

MaybeResetSyscallbuf ==
    Call(maybe_reset_syscallbuf(t), <<"maybe_reset_syscallbuf">>)

\* handle_seccomp_trap for a task inside a buffered syscall.
HandleSeccompTrapBuffered ==
    \E no \in Syscallnos :
        /\ t.syscallbuf_child
        /\ Call(handle_seccomp_trap(t, TRUE, no, 0), <<"handle_seccomp_trap", TRUE, no, 0>>)

NextBuf ==
    \/ InitBuffers
    \/ BufferSyscall
    \/ DidWait
    \/ DelayResetForDesched
    \/ SeccompTrapSlotDone
    \/ RecordEvent
    \/ MaybeResetSyscallbuf
    \/ HandleSeccompTrapBuffered
    \/ PopSeccompTrap

\* One task with a syscallbuf under every sequence of the calls that flush and
\* reset it.
SpecBuf == Init /\ [][NextBuf]_vars

-----------------------------------------------------------------------------
(* Seccomp traps and the stashed-signal queue.                             *)

\* The signals that are stashed before a seccomp trap is handled.
PendingSigs == {SIGSYS, SIGUSR1}

\* The tracee execs an image of the other architecture.
ExecOtherArch ==
    Call([t EXCEPT !.arch = IF @ = "X64" THEN "X86" ELSE "X64"], <<"exec">>)

\* The preload library stores the parameters of the syscall it is about to
\* make in its thread locals.
SetOriginalSyscallParameters ==
    \E no \in Syscallnos :
        /\ t.syscallbuf_child
        /\ t.original_syscall_parameters # [set |-> TRUE, no |-> no,
                                            args |-> <<1, 0, 0, 0, 0, 0>>]
        /\ Call([t EXCEPT !.original_syscall_parameters =
                             [set |-> TRUE, no |-> no, args |-> <<1, 0, 0, 0, 0, 0>>]],
                <<"set_original_syscall_parameters">>)

\* A signal sent to the tracee is stashed.
StashPendingSig ==
    \E sig \in PendingSigs :
        /\ CanStash(stash_sig(t, sig, "NondeterministicSig"))
        /\ Call(stash_sig(t, sig, "NondeterministicSig"), <<"stash_sig", sig>>)

NextTrap ==
    \/ InitBuffers
    \/ ExecOtherArch
    \/ SetOriginalSyscallParameters
    \/ StashPendingSig
    \/ HandleSeccompTrap

\* One task under every sequence of seccomp traps and stashed signals.
SpecTrap == Init /\ [][NextTrap]_vars

-----------------------------------------------------------------------------
(* Recording the memory of the tracee, and the end of a task.              *)

\* The most raw-data records, the most frames of the trace and the most tasks
\* of an address space.
MaxRaw == 1
MaxRecordFrames == 2
MaxTasks == 2

\* TraceWriter::write_raw: a raw-data record of the current frame time.
write_raw(task, data, addr) ==
    [task EXCEPT !.raw_data =
        Append(@, [addr |-> addr, data |-> data, time |-> Len(task.trace) + 1])]

\* The num_bytes bytes that start at addr are mapped.
IsMapped(addr, num_bytes) ==
    \A i \in 0..(num_bytes - 1) : addr + i \in MappedAddrs

\* The bytes of the tracee's memory at addr.
MemAt(task, addr, num_bytes) == [i \in 1..num_bytes |-> task.mem[addr + i - 1]]

\* read_bytes_fallible: the number of contiguous mapped bytes at addr, at
\* most num_bytes.
MappedPrefix(addr, num_bytes) ==
    Cardinality({n \in 1..num_bytes : IsMapped(addr, n)})

\* RecordTask::record_local, and record_local_for and record_local_for_slice,
\* which pass it the bytes of their values.
record_local(task, addr, data) ==
    IF task.aborted THEN task
    ELSE IF addr = 0 THEN maybe_flush_syscallbuf(task)
    ELSE write_raw(maybe_flush_syscallbuf(task), data, addr)

\* RecordTask::record_remote_by_local_map.  local_mapping: vm().local_mapping
\* finds a local mapping of the range.
record_remote_by_local_map(task, addr, num_bytes, local_mapping) ==
    IF local_mapping /\ ~task.aborted
    THEN [ret |-> TRUE,
          task |-> IF IsMapped(addr, num_bytes) \/ addr = 0
                   THEN record_local(task, addr,
                                     IF addr = 0 THEN <<>> ELSE MemAt(task, addr, num_bytes))
                   ELSE Abort(task)]
    ELSE [ret |-> FALSE, task |-> task]

\* RecordTask::record_remote, and record_remote_for and record_remote_range.
\* read_mem fails an assertion when it cannot read the whole range.
record_remote(task, addr, num_bytes, local_mapping) ==
    LET flushed == maybe_flush_syscallbuf(task)
        by_map == record_remote_by_local_map(flushed, addr, num_bytes, local_mapping)
    IN  IF task.aborted THEN task
        ELSE IF addr = 0 THEN flushed
        ELSE IF by_map.ret THEN by_map.task
        ELSE IF ~IsMapped(addr, num_bytes) THEN Abort(task)
        ELSE write_raw(flushed, MemAt(task, addr, num_bytes), addr)

\* RecordTask::record_remote_fallible, and record_remote_range_fallible.
\* ret: the Ok value, or "Err".
record_remote_fallible(task, addr, num_bytes, local_mapping) ==
    LET by_map == record_remote_by_local_map(task, addr, num_bytes, local_mapping)
        nread == IF addr = 0 THEN 0 ELSE MappedPrefix(addr, num_bytes)
    IN  IF task.aborted THEN [ret |-> "Err", task |-> task]
        ELSE IF by_map.ret THEN [ret |-> num_bytes, task |-> by_map.task]
        ELSE IF addr # 0 /\ num_bytes > 0 /\ nread = 0 THEN [ret |-> "Err", task |-> task]
        ELSE [ret |-> nread,
              task |-> write_raw(task, IF addr = 0 THEN <<>> ELSE MemAt(task, addr, nread),
                                 addr)]

\* RecordTask::record_remote_writable.  writable: the addresses of the
\* mappings that have PROT_WRITE.
record_remote_writable(task, addr, num_bytes, writable, local_mapping) ==
    LET len == Cardinality({n \in 1..num_bytes :
                              \A i \in 0..(n - 1) : addr + i \in writable})
    IN  record_remote(task, addr, len, local_mapping)

\* RecordTask::record_remote_even_if_null, and
\* record_remote_even_if_null_for.
record_remote_even_if_null(task, addr, num_bytes, local_mapping) ==
    LET flushed == maybe_flush_syscallbuf(task)
        by_map == record_remote_by_local_map(flushed, addr, num_bytes, local_mapping)
    IN  IF task.aborted THEN task
        ELSE IF addr = 0 THEN write_raw(flushed, <<>>, addr)
        ELSE IF by_map.ret THEN by_map.task
        ELSE IF ~IsMapped(addr, num_bytes) THEN Abort(task)
        ELSE write_raw(flushed, MemAt(task, addr, num_bytes), addr)

\* RecordTask::futex_wait: "Err" for an address that cannot be read, "Ok"
\* once the futex holds sync_val, and "Wait" while the loop goes on.
futex_wait(task, sync_addr, sync_val) ==
    IF sync_addr \notin MappedAddrs THEN "Err"
    ELSE IF task.mem[sync_addr] = sync_val THEN "Ok"
    ELSE "Wait"

\* The condition under which drop waits for the tid futex.
WaitsForTidFutex(task) ==
    ~task.unstable /\ task.tid_futex # 0 /\ task.vm_task_set_len > 1

\* drop that waits for the tid futex also when the task is the last one of
\* its address space.
drop_wait_always(task) ==
    LET recorded ==
            IF /\ ~task.unstable /\ task.tid_futex # 0
               /\ futex_wait(task, task.tid_futex, 0) = "Ok"
            THEN record_local(task, task.tid_futex, <<0>>)
            ELSE task
    IN  IF task.aborted THEN task
        ELSE [record_event(recorded, PlainEvent("EvExit"), "DontFlushSyscallbuf",
                           "DontResetSyscallbuf")
                EXCEPT !.destroyed = TRUE]

\* Drop for RecordTask, once futex_wait has returned.
drop(task) ==
    LET recorded ==
            IF WaitsForTidFutex(task) /\ futex_wait(task, task.tid_futex, 0) = "Ok"
            THEN record_local(task, task.tid_futex, <<0>>)
            ELSE task
    IN  IF task.aborted THEN task
        ELSE [record_event(recorded, PlainEvent("EvExit"), "DontFlushSyscallbuf",
                           "DontResetSyscallbuf")
                EXCEPT !.destroyed = TRUE]

\* A call is made while the task lives and its result is within the bounds of
\* the model.
CanRecord(next) ==
    /\ ~t.aborted
    /\ ~t.destroyed
    /\ Len(next.raw_data) <= MaxRaw
    /\ Len(next.trace) <= MaxRecordFrames

Record(next, name, result) ==
    /\ CanRecord(next)
    /\ t' = next
    /\ op' = name
    /\ ret' = result

\* The task gets its syscallbuf and the tracee commits a record to it.
InitBuffersAndBuffer ==
    /\ ~t.syscallbuf_child
    /\ Record([t EXCEPT !.syscallbuf_child = TRUE, !.hdr_num_rec_bytes = 1],
              <<"init_buffers">>, "none")

\* The tracee or the kernel stores a byte.
WriteMem ==
    \E a \in MappedAddrs, b \in Bytes :
        /\ t.mem[a] # b
        /\ Record([t EXCEPT !.mem[a] = b], <<"write_mem", a, b>>, "none")

\* The exit of set_tid_address.
SetTidAddress ==
    \E a \in Addrs :
        /\ t.tid_futex # a
        /\ Record(on_syscall_exit_arch(t, "SET_TID_ADDRESS", ExitRegs(FALSE, a, 0, "null")),
                  <<"on_syscall_exit", "SET_TID_ADDRESS">>, "none")

\* A task joins or leaves the address space.
AddressSpaceTasks ==
    \E n \in 1..MaxTasks :
        /\ t.vm_task_set_len # n
        /\ Record([t EXCEPT !.vm_task_set_len = n], <<"task_set", n>>, "none")

\* The exit of the task is found to be unstable.
UnstableExit ==
    /\ ~t.unstable
    /\ Record([t EXCEPT !.unstable = TRUE], <<"unstable">>, "none")

RecordLocal ==
    \E addr \in Addrs, data \in {<<>>, <<1>>} :
        Record(record_local(t, addr, data), <<"record_local", addr>>, "none")

RecordRemote ==
    \E addr \in Addrs, num_bytes \in 0..1, local_mapping \in BOOLEAN :
        Record(record_remote(t, addr, num_bytes, local_mapping),
               <<"record_remote", addr>>, "none")

RecordRemoteFallible ==
    \E addr \in Addrs, num_bytes \in 0..2, local_mapping \in BOOLEAN :
        Record(record_remote_fallible(t, addr, num_bytes, local_mapping).task,
               <<"record_remote_fallible", addr, local_mapping>>,
               record_remote_fallible(t, addr, num_bytes, local_mapping).ret)

RecordRemoteWritable ==
    \E addr \in Addrs, num_bytes \in 0..1, writable \in {{}, MappedAddrs},
       local_mapping \in BOOLEAN :
        Record(record_remote_writable(t, addr, num_bytes, writable, local_mapping),
               <<"record_remote_writable", addr>>, "none")

RecordRemoteEvenIfNull ==
    \E addr \in Addrs, num_bytes \in 0..1, local_mapping \in BOOLEAN :
        Record(record_remote_even_if_null(t, addr, num_bytes, local_mapping),
               <<"record_remote_even_if_null", addr>>, "none")

\* Drop for RecordTask: it returns once futex_wait has.
Drop ==
    /\ WaitsForTidFutex(t) => futex_wait(t, t.tid_futex, 0) # "Wait"
    /\ Record(drop(t), <<"drop">>, "none")

NextRecord ==
    \/ InitBuffersAndBuffer
    \/ WriteMem
    \/ RecordLocal
    \/ RecordRemote
    \/ RecordRemoteFallible
    \/ RecordRemoteWritable
    \/ RecordRemoteEvenIfNull

\* One task under every sequence of the calls that record memory.
SpecRecord == Init /\ [][NextRecord]_vars

NextDrop ==
    \/ InitBuffersAndBuffer
    \/ WriteMem
    \/ SetTidAddress
    \/ AddressSpaceTasks
    \/ UnstableExit
    \/ RecordLocal
    \/ Drop

\* One task from its construction to its destruction.
SpecDrop == Init /\ [][NextDrop]_vars

-----------------------------------------------------------------------------
(* Syscall restarts.                                                       *)

\* The number of restart_syscall (x86_64).
RESTART_SYSCALL == 219

\* kernel_abi::is_restart_syscall_syscall
is_restart_syscall_syscall(syscallno) == syscallno = RESTART_SYSCALL

\* is_syscall_restart that compares the first argument register only.
is_syscall_restart_arg1(task) ==
    IF ev(task).type # "EvSyscallInterruption" THEN FALSE
    ELSE LET orig == task.regs.original_syscallno
             syscallno == IF is_restart_syscall_syscall(orig) THEN ev(task).number ELSE orig
             skip == \/ ev(task).number # syscallno
                     \/ ev(task).args[1] # task.regs.args[1]
         IN  is_restart_syscall_syscall(orig) \/ ~skip

\* RecordTask::is_syscall_restart
is_syscall_restart(task) ==
    IF ev(task).type # "EvSyscallInterruption" THEN FALSE
    ELSE LET orig == task.regs.original_syscallno
             syscallno == IF is_restart_syscall_syscall(orig) THEN ev(task).number ELSE orig
             skip == \/ ev(task).number # syscallno
                     \/ \E i \in 1..6 : ev(task).args[i] # task.regs.args[i]
         IN  is_restart_syscall_syscall(orig) \/ ~skip

\* The argument registers of the syscalls of the model.
ArgValues == {NoArgs, <<1, 0, 0, 0, 0, 0>>, <<0, 0, 0, 0, 0, 1>>}

\* The events on top of the stack when is_syscall_restart is asked.
RestartTops ==
    {PlainEvent("EvSignalDelivery")}
    \cup {[SyscallEvent(no, 0) EXCEPT !.args = a] : no \in Syscallnos, a \in ArgValues}
    \cup {[SyscallInterruptionEvent(no, 0) EXCEPT !.args = a] :
             no \in Syscallnos, a \in ArgValues}

\* A task at the entry of a syscall, with any event on top of its stack.
InitRestart ==
    /\ \E e \in RestartTops, no \in Syscallnos \cup {RESTART_SYSCALL}, a \in ArgValues :
          t = [push_event(NewTask, e) EXCEPT !.regs.original_syscallno = no,
                                             !.regs.args = a]
    /\ op = <<"new">>
    /\ ret = "none"

IsSyscallRestart ==
    /\ op = <<"new">>
    /\ t' = t
    /\ op' = <<"is_syscall_restart">>
    /\ ret' = is_syscall_restart(t)

NextRestart == IsSyscallRestart

\* is_syscall_restart on every task of the model.
SpecRestart == InitRestart /\ [][NextRestart]_vars

-----------------------------------------------------------------------------
(* The session: several tasks, the handler tables they refer to and the    *)
(* ptrace relations the tracer emulates between them.                      *)
(*                                                                         *)
(* Where several tasks are followed, `t` is the session: the tasks it      *)
(* holds, each a record of the fields of NewTask, and the allocations of   *)
(* Rc<RefCell<Sighandlers>>.  The field sighandlers of a task of the       *)
(* session is the handle of the allocation it refers to; a method of the   *)
(* task sees, and writes, the table of that allocation.                    *)

\* The session follows at most this many tasks.
MaxSessionTasks == 2
\* At most this many sigaction calls and handler resets are followed.
MaxSigactions == 2

Tids == 1..MaxSessionTasks

\* The allocations of handler tables: every task refers to one.
Handles == 1..MaxSessionTasks

\* SupportedArch
Archs == {"X86", "X64"}

\* The table of an allocation no task refers to.
FreeTable == [sig \in ModelSigs |-> NewSighandler]

\* Sighandlers::init_from_current_process, in a tracer whose own
\* dispositions are all default: every entry is initialised from the
\* kernel_sigaction the tracer reads for it.
init_from_current_process(handlers, copied) ==
    [sig \in DOMAIN handlers |->
        init_arch(handlers[sig], DefaultKernelSigaction, copied)]

\* The session after RecordTask::new has made the initial tracee, task 1.
\* `calls` counts the sigaction calls and handler resets and belongs to no
\* field of the program.
NewSession(copied) ==
    [aborted |-> FALSE,
     live |-> {1},
     tasks |-> [tid \in Tids |-> [NewTask EXCEPT !.sighandlers = IF tid = 1 THEN 1 ELSE 0]],
     sighandlers |-> [h \in Handles |->
                        IF h = 1 THEN init_from_current_process(FreeTable, copied)
                        ELSE FreeTable],
     calls |-> 0]

\* A failed ed_assert!, or an unwrap() of None, in a method of a task of the
\* session: the tracer aborts.
AbortSession == [NewSession(<<0>>) EXCEPT !.aborted = TRUE]

\* The allocations some live task refers to.
Held(s) == {s.tasks[x].sighandlers : x \in s.live}

\* Rc::new for a task that is made: an allocation no task refers to.
FreeHandle(s) == Min(Handles \ Held(s))

\* Rc::new for the task tid, which lets go of the allocation it refers to
\* once it has the new one: the allocation it refers to when no other task
\* does, since it is freed at once, and else one no task refers to.
NewHandle(s, tid) ==
    IF \E x \in s.live \ {tid} : s.tasks[x].sighandlers = s.tasks[tid].sighandlers
    THEN FreeHandle(s)
    ELSE s.tasks[tid].sighandlers

\* Drop for Rc: an allocation no task refers to any more is freed.
Release(s) ==
    [s EXCEPT !.sighandlers =
        [h \in Handles |-> IF h \in Held(s) THEN s.sighandlers[h] ELSE FreeTable]]

\* The task tid as its methods see it: self.sighandlers.borrow() is the table
\* of the allocation the task refers to.
Self(s, tid) == [s.tasks[tid] EXCEPT !.sighandlers = s.sighandlers[@]]

\* The session after a method of the task tid left `task`: what the method
\* wrote through self.sighandlers.borrow_mut() is in the allocation the task
\* refers to, where every task that refers to it sees it.
Write(s, tid, task) ==
    IF task.aborted THEN AbortSession
    ELSE [s EXCEPT !.sighandlers[s.tasks[tid].sighandlers] = task.sighandlers,
                   !.tasks[tid] = [task EXCEPT !.sighandlers = s.tasks[tid].sighandlers]]

\* The session after a method of the task tid left `task` and replaced
\* self.sighandlers by Rc::new(RefCell::new(table)).
WriteNew(s, tid, task, table) ==
    IF task.aborted THEN AbortSession
    ELSE Release([s EXCEPT !.sighandlers[NewHandle(s, tid)] = table,
                           !.tasks[tid] = [task EXCEPT !.sighandlers = NewHandle(s, tid)]])

\* A task is made for the child of a clone or fork of `parent`.  A child that
\* shares the signal handlers (CLONE_SIGHAND) refers to the table of the
\* parent, any other child to a copy of it.
clone_task(s, parent, child, share_sighandlers) ==
    LET born == [NewTask EXCEPT !.arch = s.tasks[parent].arch]
        joined == [s EXCEPT !.live = @ \cup {child}]
    IN  IF share_sighandlers
        THEN [joined EXCEPT
                !.tasks[child] = [born EXCEPT !.sighandlers = s.tasks[parent].sighandlers]]
        ELSE [joined EXCEPT
                !.sighandlers[FreeHandle(s)] = Self(s, parent).sighandlers,
                !.tasks[child] = [born EXCEPT !.sighandlers = FreeHandle(s)]]

\* syscall_number_for_execve
syscall_number_for_execve(arch) == IF arch = "X86" THEN 11 ELSE 59

\* Task::post_exec_for_exe: the task runs the new image, without the
\* syscallbuf of the old one.  The address space, the fd table and the
\* thread areas it replaces are not followed.
post_exec_for_exe(task) == [task EXCEPT !.syscallbuf_child = FALSE]

\* post_exec that resets the user handlers in the table the task refers to,
\* without making a copy.
post_exec_in_place(s, tid, copied) ==
    LET self == Self(s, tid)
        syscallno == syscall_number_for_execve(self.arch)
        execed == post_exec_for_exe(
                      [self EXCEPT !.regs.original_syscallno = syscallno,
                                   !.pending_events[Len(self.pending_events)].number = syscallno])
    IN  IF s.aborted THEN s
        ELSE IF ~is_syscall_event(ev(self)) THEN AbortSession
        ELSE IF /\ self.emulated_ptracer # 0
                /\ s.tasks[self.emulated_ptracer].arch = "X86"
                /\ self.arch = "X64"
        THEN AbortSession
        ELSE Write(s, tid,
                   [set_robust_list(execed, 0, 0) EXCEPT
                      !.sighandlers = reset_user_handlers(self.sighandlers, copied),
                      !.cpuid_mode = 1])

\* RecordTask::post_exec.  ev_mut().syscall_mut() panics unless the top event
\* is a syscall event.  `copied` as in init_arch, for the entries it resets.
post_exec(s, tid, copied) ==
    LET self == Self(s, tid)
        syscallno == syscall_number_for_execve(self.arch)
        execed == post_exec_for_exe(
                      [self EXCEPT !.regs.original_syscallno = syscallno,
                                   !.pending_events[Len(self.pending_events)].number = syscallno])
    IN  IF s.aborted THEN s
        ELSE IF ~is_syscall_event(ev(self)) THEN AbortSession
        ELSE IF /\ self.emulated_ptracer # 0
                /\ s.tasks[self.emulated_ptracer].arch = "X86"
                /\ self.arch = "X64"
        THEN AbortSession
        ELSE WriteNew(s, tid,
                      [set_robust_list(execed, 0, 0) EXCEPT !.cpuid_mode = 1],
                      reset_user_handlers(self.sighandlers, copied))

\* on_syscall_exit that updates a copy of the handler table of the task.
on_syscall_exit_copy(s, tid, sys, regs) ==
    IF s.aborted THEN s
    ELSE WriteNew(s, tid, on_syscall_exit_arch(Self(s, tid), sys, regs),
                  on_syscall_exit_arch(Self(s, tid), sys, regs).sighandlers)

\* RecordTask::on_syscall_exit of a task of the session.
on_syscall_exit(s, tid, sys, regs) ==
    IF s.aborted THEN s
    ELSE Write(s, tid, on_syscall_exit_arch(Self(s, tid), sys, regs))

-----------------------------------------------------------------------------
(* The calls on the handler tables of the session.                         *)

\* The signals and the new actions the sigaction calls are made with.
HandlerSigs == {SIGUSR1, SIGCHLD}
NewActions ==
    {NewAction(KernelSigaction(SIG_DFL, FALSE, FALSE), <<0>>),
     NewAction(KernelSigaction(SIG_IGN, FALSE, FALSE), <<0>>),
     NewAction(KernelSigaction(2, TRUE, TRUE), <<1>>)}

InitSession ==
    /\ t = NewSession(<<0>>)
    /\ op = <<"new">>
    /\ ret = "none"

\* The tids no task was made for yet.
Unborn(s) == {tid \in Tids : tid \notin s.live /\ ~s.tasks[tid].destroyed}

\* A call on a task of the session.
SessionCall(next, name) ==
    /\ ~t.aborted
    /\ t' = next
    /\ op' = name
    /\ ret' = "none"

CloneTask ==
    \E parent \in t.live, share_sighandlers \in BOOLEAN :
        /\ Unborn(t) # {}
        /\ SessionCall(clone_task(t, parent, Min(Unborn(t)), share_sighandlers),
                       <<"clone_task", parent, Min(Unborn(t)), share_sighandlers>>)

\* A sigaction call or a handler reset was made.
Counted(s) == IF s.aborted THEN s ELSE [s EXCEPT !.calls = @ + 1]

\* The exit of a sigaction call of a task; addr is the address of the new
\* action.
Sigaction ==
    \E tid \in t.live, sig \in HandlerSigs, failed \in BOOLEAN, addr \in {0, 1},
       new_action \in NewActions :
        /\ t.calls < MaxSigactions
        /\ (addr = 0 \/ failed) => new_action = ActionOf("SignalIgnore")
        /\ SessionCall(Counted(on_syscall_exit(t, tid, "RT_SIGACTION",
                                               ExitRegs(failed, sig, addr, new_action))),
                       <<"sigaction", tid, sig, failed, addr, new_action>>)

\* The tracer resets the handler of a signal of a task.
DidSetSigHandlerDefault ==
    \E tid \in t.live, sig \in HandlerSigs, copied \in SaBytes :
        /\ t.calls < MaxSigactions
        /\ SessionCall(Counted(Write(t, tid,
                                     did_set_sig_handler_default(Self(t, tid), sig, copied))),
                       <<"did_set_sig_handler_default", tid, sig>>)

\* A task enters execve; one execve at a time is followed.
EnterExecve ==
    \E tid \in t.live :
        /\ \A x \in t.live : Len(t.tasks[x].pending_events) = 1
        /\ SessionCall(Write(t, tid,
                             push_syscall_event(Self(t, tid),
                                                syscall_number_for_execve(t.tasks[tid].arch),
                                                0)),
                       <<"push_syscall_event", tid>>)

\* An execve of a task succeeded.
PostExec ==
    \E tid \in t.live, copied \in SaBytes :
        SessionCall(post_exec(t, tid, copied), <<"post_exec", tid>>)

NextHandlers ==
    \/ CloneTask
    \/ Sigaction
    \/ DidSetSigHandlerDefault
    \/ EnterExecve
    \/ PostExec

\* The tasks of a session under every sequence of clones, sigaction calls,
\* handler resets and execs.
SpecHandlers == InitSession /\ [][NextHandlers]_vars

-----------------------------------------------------------------------------
(* The calls on the robust-futex list.                                     *)

\* The list heads and the lengths set_robust_list is called with.
RobustLists == {0, 1, 2}
RobustListLens == {0, 24}

\* The syscalls whose exit is followed.
RobustExitSyscalls == {"SET_ROBUST_LIST", "SET_TID_ADDRESS", "RT_SIGPROCMASK", "GETPID"}

\* The exit of a syscall of a task.
SyscallExit ==
    \E tid \in t.live, sys \in RobustExitSyscalls, failed \in BOOLEAN,
       skipped \in BOOLEAN, arg1 \in RobustLists, arg2 \in RobustListLens :
        SessionCall(on_syscall_exit(
                        t, tid, sys,
                        [ExitRegs(failed, arg1, arg2, "null") EXCEPT
                           !.original_syscallno =
                              IF skipped THEN SECCOMP_MAGIC_SKIP_ORIGINAL_SYSCALLNO
                              ELSE 0]),
                    <<"on_syscall_exit", tid, sys, failed, skipped, arg1, arg2>>)

\* The event of the syscall a task was in is popped.
PopExecve ==
    \E tid \in t.live :
        /\ Len(t.tasks[tid].pending_events) > 1
        /\ SessionCall(Write(t, tid, pop_syscall(Self(t, tid))), <<"pop_syscall", tid>>)

NextRobust ==
    \/ SyscallExit
    \/ EnterExecve
    \/ PostExec
    \/ PopExecve

\* The robust-futex list of a task under every sequence of syscall exits and
\* execs.
SpecRobust == InitSession /\ [][NextRobust]_vars

-----------------------------------------------------------------------------
(* The emulated ptrace relations of the tasks of a session.                *)

\* The PTRACE_O_ options of the model.
PtraceOptions == {"PTRACE_O_TRACEEXIT"}

\* The emulated stop of a ptraced task.
PtraceStopTypes == {"SignalDeliveryStop"}

\* set_emulated_ptracer(Some(tracer)): the tracer emulates `tracer` ptracing
\* the task tid.
attach_emulated_ptracer(s, tid, tracer) ==
    IF s.tasks[tid].emulated_ptracer # 0 THEN AbortSession
    ELSE [s EXCEPT !.tasks[tid].emulated_ptracer = tracer,
                   !.tasks[tracer].emulated_ptrace_tracees = @ \cup {tid}]

\* PTRACE_DETACH of the task tid by its ptracer.
detach_emulated_ptracer(s, tid) ==
    IF s.tasks[tid].emulated_ptracer = 0 THEN AbortSession
    ELSE [s EXCEPT !.tasks[s.tasks[tid].emulated_ptracer].emulated_ptrace_tracees = @ \ {tid},
                   !.tasks[tid].emulated_ptracer = 0,
                   !.tasks[tid].emulated_ptrace_options = {},
                   !.tasks[tid].emulated_stop_pending = FALSE,
                   !.tasks[tid].emulated_stop_type = "NotStopped"]

\* The loop of drop over the tracees of the task tid that are left.
RECURSIVE drop_tracees(_, _, _)
drop_tracees(s, tid, tracees) ==
    IF tracees = {} THEN s
    ELSE IF s.tasks[Min(tracees)].emulated_ptracer # tid THEN AbortSession
    ELSE drop_tracees([s EXCEPT
                         !.tasks[Min(tracees)].emulated_ptracer = 0,
                         !.tasks[Min(tracees)].emulated_ptrace_options = {},
                         !.tasks[Min(tracees)].emulated_stop_pending = FALSE,
                         !.tasks[Min(tracees)].emulated_stop_type = "NotStopped"],
                      tid, tracees \ {Min(tracees)})

\* The part of Drop::drop on the ptrace relations that leaves the tracees of
\* the task as they are.
drop_emulated_ptrace_keep_tracees(s, tid) ==
    IF s.tasks[tid].emulated_ptracer = 0 THEN s
    ELSE [s EXCEPT !.tasks[s.tasks[tid].emulated_ptracer].emulated_ptrace_tracees
                       = @ \ {tid}]

\* The part of Drop::drop on the ptrace relations of the task tid: the task
\* leaves the tracees of its ptracer, and its own tracees have no ptracer
\* any more.
drop_emulated_ptrace(s, tid) ==
    LET self == s.tasks[tid] IN
    IF self.emulated_ptracer = 0
    THEN drop_tracees(s, tid, self.emulated_ptrace_tracees)
    ELSE IF self.emulated_ptracer \notin s.live THEN AbortSession
    ELSE IF "PTRACE_O_TRACEEXIT" \in self.emulated_ptrace_options /\ ~self.stable_exit
    THEN AbortSession
    ELSE drop_tracees([s EXCEPT !.tasks[self.emulated_ptracer].emulated_ptrace_tracees
                                    = @ \ {tid}],
                      tid, self.emulated_ptrace_tracees)

\* Drop for the task tid of a session: the ptrace relations, then the tid
\* futex and the exit event; the allocation of its signal handlers is freed
\* with the last task that refers to it.
drop_task(s, tid) ==
    IF drop_emulated_ptrace(s, tid).aborted THEN AbortSession
    ELSE Release([Write(drop_emulated_ptrace(s, tid), tid,
                        drop(Self(drop_emulated_ptrace(s, tid), tid)))
                    EXCEPT !.live = @ \ {tid}])

-----------------------------------------------------------------------------
(* The calls on the ptrace relations.                                      *)

\* A task forks: the child has its own signal handlers.
ForkTask ==
    \E parent \in t.live :
        /\ Unborn(t) # {}
        /\ SessionCall(clone_task(t, parent, Min(Unborn(t)), FALSE),
                       <<"clone_task", parent, Min(Unborn(t)), FALSE>>)

\* A task attaches to another one that has no ptracer.
PtraceAttach ==
    \E tid \in t.live, tracer \in t.live :
        /\ tid # tracer
        /\ t.tasks[tid].emulated_ptracer = 0
        /\ t.tasks[tracer].emulated_ptracer # tid
        /\ SessionCall(attach_emulated_ptracer(t, tid, tracer),
                       <<"set_emulated_ptracer", tid, tracer>>)

\* A ptracer detaches from a tracee.
PtraceDetach ==
    \E tid \in t.live :
        /\ t.tasks[tid].emulated_ptracer # 0
        /\ SessionCall(detach_emulated_ptracer(t, tid), <<"ptrace_detach", tid>>)

\* A ptracer sets the options of a tracee.
PtraceSetOptions ==
    \E tid \in t.live, options \in SUBSET PtraceOptions :
        /\ t.tasks[tid].emulated_ptracer # 0
        /\ t.tasks[tid].emulated_ptrace_options # options
        /\ SessionCall([t EXCEPT !.tasks[tid].emulated_ptrace_options = options],
                       <<"ptrace_setoptions", tid>>)

\* A ptraced task stops for its ptracer.
EmulatePtraceStop ==
    \E tid \in t.live, stop_type \in PtraceStopTypes :
        /\ t.tasks[tid].emulated_ptracer # 0
        /\ t.tasks[tid].emulated_stop_type = "NotStopped"
        /\ SessionCall([t EXCEPT !.tasks[tid].emulated_stop_pending = TRUE,
                                 !.tasks[tid].emulated_stop_type = stop_type],
                       <<"emulate_ptrace_stop", tid>>)

\* A task reaches a stable exit.
StableExit ==
    \E tid \in t.live :
        /\ ~t.tasks[tid].stable_exit
        /\ SessionCall([t EXCEPT !.tasks[tid].stable_exit = TRUE],
                       <<"stable_exit", tid>>)

\* A task is destroyed.
DropTask ==
    \E tid \in t.live :
        SessionCall(drop_task(t, tid), <<"drop", tid>>)

NextPtrace ==
    \/ ForkTask
    \/ PtraceAttach
    \/ PtraceDetach
    \/ PtraceSetOptions
    \/ EmulatePtraceStop
    \/ StableExit
    \/ DropTask

\* The tasks of a session under every sequence of forks, ptrace calls and
\* destructions.
SpecPtrace == InitSession /\ [][NextPtrace]_vars

-----------------------------------------------------------------------------
(* The offset of a read or write (file_monitor.rs).                        *)
(*                                                                         *)
(* Here `t` is the task a LazyOffset holds, with what retrieve reads: the  *)
(* session's mode, the syscall and its registers, the content of           *)
(* /proc/<tid>/fdinfo/<fd>, the write_offset of the syscall event on top   *)
(* of the task's events and the write_offset of the current trace frame.   *)

\* A register of a 32-bit tracee has this many bits in the model, a register
\* of a 64-bit tracee and an i64 or u64 of the tracer twice as many.
HalfBits == 2
\* The content of fdinfo has at most this many lines.
MaxLines == 3

WordBits == 2 * HalfBits

\* The value of an integer of `bits` bits read as a signed integer.
Signed(v, bits) == IF v >= 2 ^ (bits - 1) THEN v - 2 ^ bits ELSE v

\* The bitwise or of two integers of `bits` bits.
RECURSIVE BitOr(_, _, _)
BitOr(a, b, bits) ==
    IF bits = 0 THEN 0
    ELSE (IF a % 2 = 1 \/ b % 2 = 1 THEN 1 ELSE 0)
         + 2 * BitOr(a \div 2, b \div 2, bits - 1)

\* Option<u64>
None == [some |-> FALSE, val |-> 0]
Some(v) == [some |-> TRUE, val |-> v]

\* The decimal digits, and the value of each.
Digits == {"0", "1", "2", "3", "4", "5", "6", "7", "8", "9"}
DigitValue(c) ==
    CASE c = "0" -> 0 [] c = "1" -> 1 [] c = "2" -> 2 [] c = "3" -> 3
      [] c = "4" -> 4 [] c = "5" -> 5 [] c = "6" -> 6 [] c = "7" -> 7
      [] c = "8" -> 8 [] c = "9" -> 9

\* str::parse::<u64>: the string is an optional '+' and one digit or more.
\* (No number of the model is too large for a u64.)
ParseOk(s) ==
    LET digits == IF s # <<>> /\ s[1] = "+" THEN Tail(s) ELSE s
    IN  /\ digits # <<>>
        /\ \A i \in 1..Len(digits) : digits[i] \in Digits

RECURSIVE DecimalValue(_)
DecimalValue(digits) ==
    IF digits = <<>> THEN 0
    ELSE 10 * DecimalValue(Front(digits)) + DigitValue(digits[Len(digits)])

ParseValue(s) == DecimalValue(IF s[1] = "+" THEN Tail(s) ELSE s)

\* The white space str::trim removes.
WhiteSpace == {" ", "\t", "\n"}

\* str::trim
RECURSIVE TrimStart(_)
TrimStart(s) ==
    IF s # <<>> /\ s[1] \in WhiteSpace THEN TrimStart(Tail(s)) ELSE s

RECURSIVE TrimEnd(_)
TrimEnd(s) ==
    IF s # <<>> /\ s[Len(s)] \in WhiteSpace THEN TrimEnd(Front(s)) ELSE s

Trim(s) == TrimEnd(TrimStart(s))

\* str::find: the first position where pat starts in s (0: None).
Find(s, pat) ==
    LET found == {i \in 1..(Len(s) - Len(pat) + 1) :
                     SubSeq(s, i, i + Len(pat) - 1) = pat}
    IN  IF found = {} THEN 0 ELSE Min(found)

\* "pos:\t"
PosKey == <<"p", "o", "s", ":", "\t">>

\* BufRead::read_line from position pos of the file: the position of the
\* last character it reads, the next newline or the end of the file.
LineEnd(text, pos) ==
    LET ends == {i \in pos..Len(text) : text[i] = "\n"}
    IN  IF ends = {} THEN Len(text) ELSE Min(ends)

\* The loop of retrieve_offset_arch over the lines of fdinfo, from position
\* pos of the file, with the buffer buf and the offset found so far.
\* read_line appends to buf, which is not cleared between two lines.  The
\* loop ends with the offset found (fatal: FALSE) or in fatal!.
RECURSIVE ReadPos(_, _, _, _)
ReadPos(text, pos, buf, maybe_offset) ==
    IF pos > Len(text) THEN [fatal |-> FALSE, offset |-> maybe_offset]
    ELSE LET read == buf \o SubSeq(text, pos, LineEnd(text, pos))
             s == Trim(read)
             loc == Find(s, PosKey)
             rest == SubSeq(s, loc + Len(PosKey), Len(s))
         IN  IF loc = 0
             THEN ReadPos(text, LineEnd(text, pos) + 1, read, maybe_offset)
             ELSE IF ParseOk(rest)
             THEN ReadPos(text, LineEnd(text, pos) + 1, read, Some(ParseValue(rest)))
             ELSE [fatal |-> TRUE, offset |-> None]

\* The syscalls of the model, and the architectures of the tracee.
OffsetSyscalls == {"WRITE", "WRITEV", "PWRITE64", "PWRITEV", "PREAD64", "PREADV"}
ExplicitOffsetSyscalls == {"PWRITE64", "PWRITEV", "PREAD64", "PREADV"}

\* is_implict_offset_syscall
is_implict_offset_syscall(syscallno) == syscallno \in {"WRITEV", "WRITE"}

\* regs.syscall_result() as u64
ResultAsU64(result) == IF result < 0 THEN result + 2 ^ WordBits ELSE result

\* retrieve_offset that takes arg4 of a 32-bit tracee as a signed value.
retrieve_offset_signed_arg4(task) ==
    IF task.syscallno \in ExplicitOffsetSyscalls
    THEN LET offset ==
                 IF task.arch = "X86"
                 THEN Signed(BitOr(Signed(task.regs.arg4, HalfBits) % 2 ^ WordBits,
                                   ((Signed(task.regs.arg5, HalfBits) % 2 ^ WordBits)
                                        * 2 ^ HalfBits) % 2 ^ WordBits,
                                   WordBits),
                             WordBits)
                 ELSE Signed(task.regs.arg4, WordBits)
         IN  [ret |-> IF offset < 0 THEN None ELSE Some(offset), task |-> task]
    ELSE [ret |-> None, task |-> [task EXCEPT !.aborted = TRUE]]

\* retrieve_offset: the offset it returns (ret) and the task it leaves.
\* fatal! and a failed ed_assert! abort the tracer.
retrieve_offset(task) ==
    IF task.syscallno \in ExplicitOffsetSyscalls
    THEN LET offset ==
                 IF task.arch = "X86"
                 THEN Signed(BitOr(task.regs.arg4,
                                   ((Signed(task.regs.arg5, HalfBits) % 2 ^ WordBits)
                                        * 2 ^ HalfBits) % 2 ^ WordBits,
                                   WordBits),
                             WordBits)
                 ELSE Signed(task.regs.arg4, WordBits)
         IN  [ret |-> IF offset < 0 THEN None ELSE Some(offset), task |-> task]
    ELSE IF task.syscallno \in {"WRITEV", "WRITE"}
    THEN LET read == ReadPos(task.fdinfo, 1, <<>>, None)
             result == ResultAsU64(task.regs.syscall_result)
         IN  IF task.is_replaying \/ read.fatal \/ ~read.offset.some
             THEN [ret |-> None, task |-> [task EXCEPT !.aborted = TRUE]]
             ELSE [ret |-> IF read.offset.val < result THEN None
                           ELSE Some(read.offset.val - result),
                   task |-> [task EXCEPT !.fdinfo_read = TRUE]]
    ELSE [ret |-> None, task |-> [task EXCEPT !.aborted = TRUE]]

\* LazyOffset::retrieve that does not store the offset in the event.
retrieve_no_store(task, needed_for_replay) ==
    IF ~(needed_for_replay \/ ~task.is_replaying)
    THEN [ret |-> None, task |-> [task EXCEPT !.aborted = TRUE]]
    ELSE IF task.is_replaying /\ is_implict_offset_syscall(task.syscallno)
    THEN [ret |-> task.frame_write_offset, task |-> task]
    ELSE retrieve_offset(task)

\* LazyOffset::retrieve: the offset it returns (ret) and the task it leaves.
retrieve(task, needed_for_replay) ==
    IF ~(needed_for_replay \/ ~task.is_replaying)
    THEN [ret |-> None, task |-> [task EXCEPT !.aborted = TRUE]]
    ELSE IF task.is_replaying /\ is_implict_offset_syscall(task.syscallno)
    THEN [ret |-> task.frame_write_offset, task |-> task]
    ELSE IF /\ needed_for_replay
            /\ is_implict_offset_syscall(task.syscallno)
            /\ ~retrieve_offset(task).task.aborted
    THEN [ret |-> retrieve_offset(task).ret,
          task |-> [retrieve_offset(task).task EXCEPT
                      !.write_offset = retrieve_offset(task).ret]]
    ELSE retrieve_offset(task)

-----------------------------------------------------------------------------
(* The calls that retrieve an offset.                                      *)

\* The lines of fdinfo: the position, as the kernel writes it, and the flags
\* and the mount id.
PosLine(digits) == PosKey \o digits \o <<"\n">>
FdinfoLines ==
    {PosLine(<<"4", "2">>), PosLine(<<"5">>),
     <<"f", "l", "a", "g", "s", ":", "\t", "0", "2", "\n">>}

\* The contents of fdinfo: every sequence of at most MaxLines lines.
RECURSIVE Concat(_)
Concat(lines) == IF lines = <<>> THEN <<>> ELSE Head(lines) \o Concat(Tail(lines))

FdinfoContents ==
    {Concat(lines) : lines \in UNION {[1..n -> FdinfoLines] : n \in 0..MaxLines}}

\* The values of a register of the tracee.
RegValues(arch) == 0..(2 ^ (IF arch = "X86" THEN HalfBits ELSE WordBits) - 1)

\* The results of a write: the bytes written, or an error.
WriteResults == {-1, 0, 5, 17}

\* The task of a LazyOffset of a recording session.  retrieved is the offset
\* retrieve(true) last returned and fdinfo_read whether fdinfo was read; they
\* belong to no field of the program.
OffsetTask(arch, syscallno, arg4, arg5, syscall_result, fdinfo) ==
    [aborted |-> FALSE, is_replaying |-> FALSE, arch |-> arch,
     syscallno |-> syscallno,
     regs |-> [arg4 |-> arg4, arg5 |-> arg5, syscall_result |-> syscall_result],
     fdinfo |-> fdinfo, fdinfo_read |-> FALSE,
     write_offset |-> None, has_frame |-> FALSE, frame_write_offset |-> None,
     retrieved |-> None]

\* A task stops at the exit of a write, with any content of fdinfo, or at the
\* exit of a read or write at an offset, with any arguments.
InitOffset ==
    /\ \/ \E arch \in Archs, syscallno \in {"WRITE", "WRITEV"},
             syscall_result \in WriteResults, fdinfo \in FdinfoContents :
             t = OffsetTask(arch, syscallno, 0, 0, syscall_result, fdinfo)
       \/ \E arch \in Archs, syscallno \in ExplicitOffsetSyscalls :
             \E arg4 \in RegValues(arch), arg5 \in RegValues(arch) :
                t = OffsetTask(arch, syscallno, arg4, arg5, 0, <<>>)
    /\ op = <<"new">>
    /\ ret = "none"

\* The offset of a recorded syscall is retrieved while its exit is processed,
\* before its event is written to the trace.
Retrieve ==
    \E needed_for_replay \in BOOLEAN :
        /\ ~t.aborted
        /\ t.is_replaying \/ ~t.has_frame
        /\ t' = [retrieve(t, needed_for_replay).task EXCEPT
                   !.retrieved = IF needed_for_replay /\ ~t.is_replaying
                                 THEN retrieve(t, needed_for_replay).ret ELSE @]
        /\ op' = <<"retrieve", needed_for_replay>>
        /\ ret' = retrieve(t, needed_for_replay).ret

\* The event of the syscall is written to the trace.
RecordSyscallFrame ==
    /\ ~t.aborted
    /\ ~t.is_replaying
    /\ ~t.has_frame
    /\ t' = [t EXCEPT !.has_frame = TRUE, !.frame_write_offset = t.write_offset]
    /\ op' = <<"record_event">>
    /\ ret' = "none"

\* The trace is replayed: the task of the replay stops at the exit of the
\* same syscall, with the recorded frame as the current trace frame; what
\* fdinfo holds then is another content.
Replay ==
    \E fdinfo \in {<<>>, PosLine(<<"7">>)} :
        /\ ~t.aborted
        /\ ~t.is_replaying
        /\ t.has_frame
        /\ t' = [t EXCEPT !.is_replaying = TRUE, !.write_offset = None,
                          !.fdinfo = fdinfo, !.fdinfo_read = FALSE]
        /\ op' = <<"replay">>
        /\ ret' = "none"

NextOffset ==
    \/ Retrieve
    \/ RecordSyscallFrame
    \/ Replay

\* The offsets retrieved for one syscall, while it is recorded and while it
\* is replayed.
SpecOffset == InitOffset /\ [][NextOffset]_vars

-----------------------------------------------------------------------------
(* The CPUID features hidden from the tracees (record_session.rs).         *)
(*                                                                         *)
(* A 32-bit register or mask is the set of the positions of its set bits:  *)
(* a & !m is a \ m, and a | b is a \cup b.                                 *)

\* The positions of the bits of the flags: 1 << 30, 1 << 11, 1 << 18, 1 << 0.
CPUID_RDRAND_BIT == 30
CPUID_RTM_BIT == 11
CPUID_RDSEED_BIT == 18
CPUID_XSAVEOPT_BIT == 0

CPUID_RDRAND_FLAG == {CPUID_RDRAND_BIT}
CPUID_RTM_FLAG == {CPUID_RTM_BIT}
CPUID_RDSEED_FLAG == {CPUID_RDSEED_BIT}
CPUID_XSAVEOPT_FLAG == {CPUID_XSAVEOPT_BIT}

\* The leaves of CPUID that name features.
CPUID_GETFEATURES == 1
CPUID_GETEXTENDEDFEATURES == 7
CPUID_GETXSAVE == 13

\* DisableCPUIDFeatures::from
DisableCPUIDFeatures(features, features_ext, features_xsave) ==
    [features_ecx |-> features[1], features_edx |-> features[2],
     extended_features_ebx |-> features_ext[1],
     extended_features_ecx |-> features_ext[2],
     extended_features_edx |-> features_ext[3],
     xsave_features_eax |-> features_xsave]

\* DisableCPUIDFeatures::new
NewDisableCPUIDFeatures == DisableCPUIDFeatures(<<{}, {}>>, <<{}, {}, {}>>, {})

\* any_features_disabled
any_features_disabled(self) ==
    \/ self.features_ecx # {}
    \/ self.features_edx # {}
    \/ self.extended_features_ebx # {}
    \/ self.extended_features_ecx # {}
    \/ self.extended_features_edx # {}
    \/ self.xsave_features_eax # {}

\* amend_cpuid_data that takes every subleaf of a leaf as the one that names
\* the features.
amend_cpuid_data_any_subleaf(self, eax_in, ecx_in, cpuid_data) ==
    CASE eax_in = CPUID_GETFEATURES ->
           [cpuid_data EXCEPT !.ecx = @ \ (CPUID_RDRAND_FLAG \cup self.features_ecx),
                              !.edx = @ \ self.features_edx]
      [] eax_in = CPUID_GETEXTENDEDFEATURES ->
           [cpuid_data EXCEPT
              !.ebx = @ \ (CPUID_RDSEED_FLAG \cup CPUID_RTM_FLAG
                             \cup self.extended_features_ebx),
              !.ecx = @ \ self.extended_features_ecx,
              !.edx = @ \ self.extended_features_edx]
      [] eax_in = CPUID_GETXSAVE ->
           [cpuid_data EXCEPT
              !.eax = @ \ (CPUID_XSAVEOPT_FLAG \cup self.xsave_features_eax)]
      [] OTHER -> cpuid_data

\* amend_cpuid_data: the CPUID data a tracee gets for the leaf eax_in and the
\* subleaf ecx_in in place of cpuid_data.
amend_cpuid_data(self, eax_in, ecx_in, cpuid_data) ==
    CASE eax_in = CPUID_GETFEATURES ->
           [cpuid_data EXCEPT !.ecx = @ \ (CPUID_RDRAND_FLAG \cup self.features_ecx),
                              !.edx = @ \ self.features_edx]
      [] eax_in = CPUID_GETEXTENDEDFEATURES ->
           IF ecx_in = 0
           THEN [cpuid_data EXCEPT
                   !.ebx = @ \ (CPUID_RDSEED_FLAG \cup CPUID_RTM_FLAG
                                  \cup self.extended_features_ebx),
                   !.ecx = @ \ self.extended_features_ecx,
                   !.edx = @ \ self.extended_features_edx]
           ELSE cpuid_data
      [] eax_in = CPUID_GETXSAVE ->
           IF ecx_in = 1
           THEN [cpuid_data EXCEPT
                   !.eax = @ \ (CPUID_XSAVEOPT_FLAG \cup self.xsave_features_eax)]
           ELSE cpuid_data
      [] OTHER -> cpuid_data

-----------------------------------------------------------------------------
(* The CPUID instructions of the tracees.                                  *)

\* The values of a register of the CPUID data, and of a mask of the
\* features to disable: the flags, the bits 5 and 31, all of them or none.
CpuidRegisters ==
    {{}, {0, 11}, {18, 30}, {5, 31}, {0, 5, 11, 18, 30, 31}}
CpuidMasks == {{}, {5}, {11, 31}}

\* The features a session disables.
DisabledFeatures ==
    {NewDisableCPUIDFeatures}
      \cup {DisableCPUIDFeatures(<<m, n>>, <<n, m, n>>, m) :
              m \in CpuidMasks \ {{}}, n \in CpuidMasks}

\* The leaves and the subleaves the tracees ask for.
CpuidLeaves == {0, CPUID_GETFEATURES, CPUID_GETEXTENDEDFEATURES, CPUID_GETXSAVE}
CpuidSubleaves == {0, 1, 2}

\* A tracee runs CPUID and the instruction faults: the session has the
\* features to disable, the leaf, the subleaf and what the CPU returns.
InitCpuid ==
    /\ \E self \in DisabledFeatures, eax_in \in CpuidLeaves, ecx_in \in CpuidSubleaves,
          eax \in {{}, {0, 5, 11, 18, 30, 31}}, ebx \in CpuidRegisters,
          ecx \in CpuidRegisters, edx \in {{}, {5, 31}, {0, 5, 11, 18, 30, 31}} :
          t = [disable_cpuid_features |-> self, eax_in |-> eax_in, ecx_in |-> ecx_in,
               cpuid_data |-> [eax |-> eax, ebx |-> ebx, ecx |-> ecx, edx |-> edx]]
    /\ op = <<"cpuid">>
    /\ ret = "none"

\* The data is amended for the tracee.
AmendCpuidData ==
    /\ t' = [t EXCEPT !.cpuid_data = amend_cpuid_data(t.disable_cpuid_features,
                                                      t.eax_in, t.ecx_in, @)]
    /\ op' = <<"amend_cpuid_data">>
    /\ ret' = "none"

NextCpuid == AmendCpuidData

\* The CPUID data of one instruction, amended once or more.
SpecCpuid == InitCpuid /\ [][NextCpuid]_vars

-----------------------------------------------------------------------------
(* The environment of the first tracee (record_session.rs).                *)
(*                                                                         *)
(* An environment is a sequence of pairs <<name, value>>; a value is the   *)
(* sequence of its parts, the names of the libraries and the ":" between   *)
(* them.  A path that is None is the empty sequence.                       *)

\* The environment has at most this many variables before create.
MaxEnv == 2

\* The index of the first variable called name in env (0: none).
FirstNamed(env, name) ==
    IF \E i \in 1..Len(env) : env[i][1] = name
    THEN Min({i \in 1..Len(env) : env[i][1] = name})
    ELSE 0

\* env::set_var and env::remove_var on the environment of the tracer.
set_var(env, name, value) ==
    IF FirstNamed(env, name) = 0 THEN Append(env, <<name, value>>)
    ELSE [env EXCEPT ![FirstNamed(env, name)] = <<name, value>>]

remove_var(env, name) == SelectSeq(env, LAMBDA pair : pair[1] # name)

\* inject_ld_helper_library: the first variable called name gets a new value,
\* and a variable is added when there is none.
inject_ld_helper_library(env, name, val) ==
    IF FirstNamed(env, name) = 0 THEN Append(env, <<name, val>>)
    ELSE [env EXCEPT ![FirstNamed(env, name)] = <<name, val \o <<":">> \o val>>]

\* The value create injects: the address-sanitizer runtime first when the
\* executable has one, then the syscallbuf library.
LdPreload(libasan_path, syscall_buffer_lib_path) ==
    (IF libasan_path # <<>> THEN libasan_path \o <<":">> ELSE <<>>)
        \o syscall_buffer_lib_path \o <<"SYSCALLBUF_LIB_FILENAME_PADDED">>

\* RecordSession::create: the environment it hands to RecordSession::new,
\* from the environment of the tracer, the options of the command and what
\* it finds of the executable and of the helper library (the fields of o).
create(o) ==
    LET vars_os == IF o.use_syscall_buffer
                   THEN set_var(o.process_env, "SYSCALLBUF_ENABLED_ENV_VAR", <<"1">>)
                   ELSE remove_var(o.process_env, "SYSCALLBUF_ENABLED_ENV_VAR")
        env == vars_os \o o.extra_env
        injected == IF o.syscall_buffer_lib_path # <<>>
                    THEN inject_ld_helper_library(
                             env, "LD_PRELOAD",
                             LdPreload(o.libasan_path, o.syscall_buffer_lib_path))
                    ELSE env
    IN  injected
          \o << <<"RUNNING_UNDER_RD", <<"1">> >>,
                <<"LIBGL_ALWAYS_SOFTWARE", <<"1">> >>,
                <<"SSS_NSS_USE_MEMCACHE", <<"NO">> >>,
                <<"MOZ_GDB_SLEEP", <<"0">> >> >>
          \o (IF o.has_cpuid_faulting THEN <<>>
              ELSE << <<"OPENSSL_ia32cap", <<"~4611686018427387904:~0">> >>,
                      <<"QT_NO_CPU_FEATURE", <<"rdrand rdseed rtm">> >> >>)

-----------------------------------------------------------------------------
(* The creation of a recording session.                                    *)

\* The variables of the environment of the tracer: LD_PRELOAD with one
\* library or two, and PATH.
EnvVars ==
    {<<"LD_PRELOAD", <<"libuser.so">> >>,
     <<"LD_PRELOAD", <<"libuser.so", ":", "libother.so">> >>,
     <<"PATH", <<"/bin">> >>}

\* The environments of the tracer: no name is there twice.
ProcessEnvs ==
    {env \in UNION {[1..n -> EnvVars] : n \in 0..MaxEnv} :
        \A i, j \in 1..Len(env) : env[i][1] = env[j][1] => i = j}

\* The variables the command adds.
ExtraEnvs == {<<>>, << <<"LD_PRELOAD", <<"libextra.so">> >> >>}

\* rd record is run: the environment of the tracer, the options of the
\* command and what is found of the executable and of the helper library.
InitCreate ==
    /\ \E process_env \in ProcessEnvs, extra_env \in ExtraEnvs,
          use_syscall_buffer \in BOOLEAN,
          libasan_path \in {<<>>, <<"libasan.so">>},
          syscall_buffer_lib_path \in {<<>>, <<"/usr/lib/rd/">>},
          has_cpuid_faulting \in BOOLEAN :
          t = [process_env |-> process_env, extra_env |-> extra_env,
               use_syscall_buffer |-> use_syscall_buffer,
               libasan_path |-> libasan_path,
               syscall_buffer_lib_path |-> syscall_buffer_lib_path,
               has_cpuid_faulting |-> has_cpuid_faulting,
               created |-> FALSE, env |-> <<>>]
    /\ op = <<"record">>
    /\ ret = "none"

\* The session is created.
Create ==
    /\ ~t.created
    /\ t' = [t EXCEPT !.created = TRUE,
                      !.env = create(t)]
    /\ op' = <<"create">>
    /\ ret' = "none"

NextCreate == Create

\* The environment of the first tracee, for every environment of the tracer.
SpecCreate == InitCreate /\ [][NextCreate]_vars

-----------------------------------------------------------------------------
(* log.rs: the log levels of RD_LOG and the log macros.                    *)
(* A string is the sequence of its characters.                              *)

\* enum LogLevel, in its derived order
LogFatal == 0
LogError == 1
LogWarn == 2
LogInfo == 3
LogDebug == 4
LogLevels == LogFatal..LogDebug

\* The number of items of RD_LOG and of messages written that are followed.
MaxItems == 2
MaxLogged == 2

log_level_string_to_level(log_level_string) ==
    CASE log_level_string = <<"f", "a", "t", "a", "l">> -> LogFatal
      [] log_level_string = <<"e", "r", "r", "o", "r">> -> LogError
      [] log_level_string = <<"w", "a", "r", "n">> -> LogWarn
      [] log_level_string = <<"i", "n", "f", "o">> -> LogInfo
      [] log_level_string = <<"d", "e", "b", "u", "g">> -> LogDebug
      [] OTHER -> LogWarn

\* str::split: the pieces of s between the occurrences of the character sep.
RECURSIVE Split(_, _)
Split(s, sep) ==
    LET loc == Find(s, <<sep>>)
    IN  IF loc = 0 THEN <<s>>
        ELSE <<SubSeq(s, 1, loc - 1)>> \o Split(SubSeq(s, loc + 1, Len(s)), sep)

\* str::splitn(2, sep): s itself, or what is before and after the first sep.
Splitn2(s, sep) ==
    LET loc == Find(s, <<sep>>)
    IN  IF loc = 0 THEN <<s>>
        ELSE <<SubSeq(s, 1, loc - 1), SubSeq(s, loc + 1, Len(s))>>

Max(S) == CHOOSE x \in S : \A y \in S : x >= y

\* HashMap::insert
Insert(hm, k, v) == [x \in DOMAIN hm \cup {k} |-> IF x = k THEN v ELSE hm[x]]

EmptyMap == [x \in {} |-> 0]

ModAll == <<"a", "l", "l">>

\* The loop of init_log_levels over the items that are left.
RECURSIVE InitLogLevelsAllAsModule(_, _, _)
InitLogLevelsAllAsModule(mod_colon_levels, default_level, hm) ==
    IF mod_colon_levels = <<>> THEN [default_level |-> default_level, level_map |-> hm]
    ELSE LET res == Splitn2(Head(mod_colon_levels), ":")
         IN  IF Len(res) = 2
             THEN InitLogLevelsAllAsModule(Tail(mod_colon_levels), default_level,
                      Insert(hm, Trim(res[1]), log_level_string_to_level(Trim(res[2]))))
             ELSE InitLogLevelsAllAsModule(Tail(mod_colon_levels), default_level, hm)

RECURSIVE InitLogLevelsLoop(_, _, _)
InitLogLevelsLoop(mod_colon_levels, default_level, hm) ==
    IF mod_colon_levels = <<>> THEN [default_level |-> default_level, level_map |-> hm]
    ELSE LET res == Splitn2(Head(mod_colon_levels), ":")
         IN  IF Len(res) = 2
             THEN LET mod_name == Trim(res[1])
                      log_level_string == Trim(res[2])
                  IN  IF mod_name = ModAll
                      THEN InitLogLevelsLoop(Tail(mod_colon_levels),
                               log_level_string_to_level(log_level_string), hm)
                      ELSE InitLogLevelsLoop(Tail(mod_colon_levels), default_level,
                               Insert(hm, mod_name,
                                      log_level_string_to_level(log_level_string)))
             ELSE InitLogLevelsLoop(Tail(mod_colon_levels), default_level, hm)

\* init_log_levels with no special meaning of the module name "all"
init_log_levels_all_as_module(rd_log) ==
    InitLogLevelsAllAsModule(Split(rd_log, ","), LogWarn, EmptyMap)

init_log_levels(rd_log) == InitLogLevelsLoop(Split(rd_log, ","), LogWarn, EmptyMap)

\* LOG_GLOBALS, from RD_LOG (rd_log.some is FALSE when the variable is not
\* set). log_file is the number of messages written to the log file.
NewLogGlobals(rd_log) ==
    LET levels == IF rd_log.some THEN init_log_levels(rd_log.val)
                  ELSE [default_level |-> LogWarn, level_map |-> EmptyMap]
    IN  [rd_log |-> rd_log,
         level_map |-> levels.level_map,
         log_modules_cache |-> EmptyMap,
         log_file |-> 0,
         default_level |-> levels.default_level,
         aborted |-> FALSE]

get_log_level(module_name, l) ==
    IF module_name \in DOMAIN l.level_map THEN l.level_map[module_name]
    ELSE l.default_level

\* Path::file_stem of the last component of filename: the file name up to
\* its last '.', or the whole file name when it has no '.' after its first
\* character.
filename_to_module_name(filename) ==
    LET slashes == {i \in 1..Len(filename) : filename[i] = "/"}
        start == IF slashes = {} THEN 1 ELSE Max(slashes) + 1
        file_name == SubSeq(filename, start, Len(filename))
        dots == {i \in 2..Len(file_name) : file_name[i] = "."}
    IN  IF dots = {} THEN file_name ELSE SubSeq(file_name, 1, Max(dots) - 1)

\* get_log_module: the module and the globals with the module cached.
get_log_module(filename, l) ==
    IF filename \in DOMAIN l.log_modules_cache
    THEN [ret |-> l.log_modules_cache[filename], l |-> l]
    ELSE LET name == filename_to_module_name(filename)
             level == get_log_level(name, l)
             m == [level |-> level, name |-> name]
         IN  [ret |-> m,
              l |-> [l EXCEPT !.log_modules_cache = Insert(@, filename, m)]]

\* NewLineTerminatingOstream::new: ret.some says whether there is a stream.
NewLineTerminatingOstream(level, filename, always_enabled, l) ==
    LET m == get_log_module(filename, l)
        enabled == always_enabled \/ level <= m.ret.level
    IN  [ret |-> [some |-> enabled, level |-> level], l |-> m.l]

is_logging(level, filename, l) ==
    LET m == get_log_module(filename, l)
    IN  [ret |-> level <= m.ret.level, l |-> m.l]

\* The log! macro, with the drop of its stream: the message is written to the
\* log file when there is a stream.
log(level, filename, always_enabled, l) ==
    LET maybe_stream == NewLineTerminatingOstream(level, filename, always_enabled, l)
    IN  IF maybe_stream.ret.some
        THEN [ret |-> TRUE, l |-> [maybe_stream.l EXCEPT !.log_file = @ + 1]]
        ELSE [ret |-> FALSE, l |-> maybe_stream.l]

\* The items of RD_LOG that are followed.
RdLogItems ==
    { <<"a", "l", "l", ":", "d", "e", "b", "u", "g">>,
      <<"a", "l", "l", ":", "f", "a", "t", "a", "l">>,
      <<"f", ":", "e", "r", "r", "o", "r">>,
      <<" ", "f", " ", ":", " ", "i", "n", "f", "o", " ">>,
      <<"f", ":", "I", "n", "f", "o">>,
      <<"f", ".", "g", ":", "d", "e", "b", "u", "g">>,
      <<"d", "e", "b", "u", "g">> }

RECURSIVE JoinItems(_)
JoinItems(items) ==
    IF items = <<>> THEN <<>>
    ELSE IF Len(items) = 1 THEN items[1]
    ELSE items[1] \o <<",">> \o JoinItems(Tail(items))

RdLogs ==
    {[some |-> FALSE, val |-> <<>>]}
    \cup {[some |-> TRUE, val |-> JoinItems(items)] :
             items \in UNION {[1..n -> RdLogItems] : n \in 0..MaxItems}}

\* file!() of the callers that are followed
FileNames ==
    { <<"s", "/", "f", ".", "r", "s">>,
      <<"f", ".", "g", ".", "r", "s">> }

InitLog ==
    /\ t \in {NewLogGlobals(rd_log) : rd_log \in RdLogs}
    /\ op = <<"new">>
    /\ ret = FALSE

Log ==
    \E level \in LogLevels, filename \in FileNames :
        /\ ~t.aborted
        /\ t.log_file < MaxLogged
        /\ LET r == log(level, filename, FALSE, t)
           IN  /\ t' = r.l
               /\ ret' = r.ret
        /\ op' = <<"log", level, filename>>

IsLogging ==
    \E level \in LogLevels, filename \in FileNames :
        /\ ~t.aborted
        /\ LET r == is_logging(level, filename, t)
           IN  /\ t' = r.l
               /\ ret' = r.ret
        /\ op' = <<"is_logging", level, filename>>

\* fatal! and a failed ed_assert!: the message, then notifying_abort.
Fatal ==
    \E filename \in FileNames :
        /\ ~t.aborted
        /\ t.log_file < MaxLogged
        /\ LET r == log(LogFatal, filename, TRUE, t)
           IN  /\ t' = [r.l EXCEPT !.aborted = TRUE]
               /\ ret' = r.ret
        /\ op' = <<"fatal", LogFatal, filename>>

NextLog == Log \/ IsLogging \/ Fatal

\* The messages of a process, for every RD_LOG.
SpecLog == InitLog /\ [][NextLog]_vars

-----------------------------------------------------------------------------
(* log.rs: fatal!, ed_assert! and notifying_abort, step by step.            *)

\* The sizes of RD_LOG_BUFFER that are followed, in messages (0: the log
\* file is not buffered).
LogBufferSizes == {0, 2}

\* A process with LOG_GLOBALS: lock is the state of the mutex of
\* LOG_GLOBALS, message the text of the stream that holds the lock, log_file
\* the number of messages written to the log file and log_sink the number of
\* them that have left its buffer. events lists what the process has done
\* since it entered fatal! or a failing ed_assert!.
NewLogProcess(rd_log, log_buffer_size) ==
    LET l == NewLogGlobals(rd_log)
    IN  [rd_log |-> rd_log,
         level_map |-> l.level_map,
         log_modules_cache |-> l.log_modules_cache,
         log_file |-> 0,
         default_level |-> l.default_level,
         aborted |-> FALSE,
         log_buffer_size |-> log_buffer_size,
         log_sink |-> 0,
         lock |-> "free",
         message |-> <<>>,
         backtrace |-> FALSE,
         pc |-> "run",
         events |-> <<>>]

\* Mutex::lock of the running thread: it returns only when the mutex is free.
CanLock(l) == l.lock = "free"

\* BufWriter::write_all of one message, or the write of the file itself.
write_all(l) ==
    LET pending == l.log_file - l.log_sink
        flushed == IF pending + 1 > l.log_buffer_size THEN l.log_file ELSE l.log_sink
    IN  [l EXCEPT !.log_file = @ + 1,
                  !.log_sink = IF 1 >= l.log_buffer_size THEN l.log_file + 1
                               ELSE flushed]

\* Drop for NewLineTerminatingOstream: the message goes to the log file.
stream_drop(l) ==
    IF l.message # <<>> THEN [write_all(l) EXCEPT !.message = <<>>] ELSE l

\* The drop of the fields of the stream: the MutexGuard releases the mutex.
guard_drop_keeps_lock(l) == l

guard_drop(l) == [l EXCEPT !.lock = "free"]

\* flush_log_buffer, with the mutex held from its first to its last line.
flush_log_buffer(l) == [l EXCEPT !.log_sink = l.log_file]

\* log!: the stream, the message and the drop of the stream at the end of
\* the statement.
LogMessage ==
    \E level \in LogLevels, filename \in FileNames :
        /\ t.pc = "run"
        /\ t.log_file < MaxLogged
        /\ CanLock(t)
        /\ LET s == NewLineTerminatingOstream(level, filename, FALSE, t)
           IN  /\ t' = IF s.ret.some
                       THEN guard_drop(stream_drop(
                                [s.l EXCEPT !.lock = "stream",
                                            !.message = <<level>>]))
                       ELSE s.l
               /\ ret' = s.ret.some
        /\ op' = <<"log", level, filename>>

\* ed_assert!, ed_assert_eq!, ed_assert_ne! whose condition holds
EdAssertHolds ==
    /\ t.pc = "run"
    /\ op # <<"ed_assert", TRUE>>
    /\ t' = t
    /\ op' = <<"ed_assert", TRUE>>
    /\ ret' = FALSE

\* fatal!, or an ed_assert! whose condition fails: crate::log::log with
\* always_enabled.
FatalStream ==
    \E kind \in {"fatal", "ed_assert"}, filename \in FileNames :
        /\ t.pc = "run"
        /\ CanLock(t)
        /\ LET s == NewLineTerminatingOstream(LogFatal, filename, TRUE, t)
           IN  /\ t' = [s.l EXCEPT !.lock = IF s.ret.some THEN "stream" ELSE @,
                                   !.message = IF s.ret.some THEN <<LogFatal>> ELSE @,
                                   !.pc = IF s.ret.some THEN "stream" ELSE "dropped",
                                   !.events = <<"enter">>]
               /\ ret' = s.ret.some
        /\ op' = <<kind, FALSE>>

\* write!(stream, ...)
FatalWrite ==
    /\ t.pc = "stream"
    /\ t' = [t EXCEPT !.message = @ \o <<"message">>, !.pc = "written"]
    /\ UNCHANGED <<op, ret>>

\* The end of the block of the stream: Drop::drop
FatalStreamDrop ==
    /\ t.pc = "written"
    /\ t' = [stream_drop(t) EXCEPT !.pc = "guard", !.events = Append(@, "write")]
    /\ UNCHANGED <<op, ret>>

\* and the drop of the lock field
FatalGuardDrop ==
    /\ t.pc = "guard"
    /\ t' = [guard_drop(t) EXCEPT !.pc = "dropped", !.events = Append(@, "release")]
    /\ UNCHANGED <<op, ret>>

\* notifying_abort: flush_log_buffer
NotifyingAbortFlush ==
    /\ t.pc = "dropped"
    /\ CanLock(t)
    /\ t' = [flush_log_buffer(t) EXCEPT !.pc = "flushed", !.events = Append(@, "flush")]
    /\ UNCHANGED <<op, ret>>

\* dump_rd_stack
NotifyingAbortDump ==
    /\ t.pc = "flushed"
    /\ t' = [t EXCEPT !.backtrace = TRUE, !.pc = "dumped",
                      !.events = Append(@, "backtrace")]
    /\ UNCHANGED <<op, ret>>

\* std::process::abort
NotifyingAbortAbort ==
    /\ t.pc = "dumped"
    /\ t' = [t EXCEPT !.aborted = TRUE, !.pc = "aborted",
                      !.events = Append(@, "abort")]
    /\ UNCHANGED <<op, ret>>

InitFatal ==
    /\ t \in {NewLogProcess(rd_log, size) :
                 rd_log \in {r \in RdLogs : r.some => Len(Split(r.val, ",")) <= 1},
                 size \in LogBufferSizes}
    /\ op = <<"new", FALSE>>
    /\ ret = FALSE

\* The steps of a thread that has entered fatal! or a failing ed_assert!.
FatalPath ==
    \/ FatalWrite
    \/ FatalStreamDrop
    \/ FatalGuardDrop
    \/ NotifyingAbortFlush
    \/ NotifyingAbortDump
    \/ NotifyingAbortAbort

NextFatal == LogMessage \/ EdAssertHolds \/ FatalStream \/ FatalPath

\* A process that logs and then fails; its thread keeps running.
SpecFatal == InitFatal /\ [][NextFatal]_vars /\ WF_vars(FatalPath)

-----------------------------------------------------------------------------
(* record_session.rs: check_perf_event_paranoid at the start of            *)
(* RecordSession::create.                                                   *)

\* clean_fatal!: the prefix and the message on stderr, then
\* std::process::exit(1).
clean_fatal(p, message) ==
    [p EXCEPT !.stderr = Append(@, message),
              !.exited = TRUE,
              !.exit_status = 1]

\* check_perf_event_paranoid. p is the process: what it finds of
\* /proc/sys/kernel/perf_event_paranoid (fd_is_open, read_ok, contents) and
\* what it has done (file_opened, logged, stderr, exited, exit_status,
\* backtrace, aborted).
check_perf_event_paranoid(p) ==
    LET opened == [p EXCEPT !.file_opened = TRUE]
    IN  IF p.fd_is_open
        THEN IF p.read_ok
             THEN IF Len(p.contents) # 0
                  THEN LET int_str == Trim(p.contents)
                       IN  IF ParseOk(int_str)
                           THEN IF ParseValue(int_str) > 1
                                THEN clean_fatal(opened, "needs <= 1")
                                ELSE opened
                           ELSE clean_fatal(opened, "Error while parsing file")
                  ELSE clean_fatal(opened, "Read 0 bytes")
             ELSE clean_fatal(opened, "Error while reading file")
        ELSE [opened EXCEPT !.logged = TRUE]

\* The start of RecordSession::create.
create_check(p) ==
    IF ~p.use_syscall_buffer THEN p ELSE check_perf_event_paranoid(p)

\* What /proc/sys/kernel/perf_event_paranoid may hold: a number with or
\* without a sign and a newline, nothing, and a text that is no number.
ParanoidSigns == {<<>>, <<"-">>, <<"+">>}
ParanoidDigits == {<<"0">>, <<"1">>, <<"2">>, <<"3">>, <<"1", "0">>}
ParanoidEnds == {<<>>, <<"\n">>}
ParanoidContents ==
    {sign \o digits \o end :
         sign \in ParanoidSigns, digits \in ParanoidDigits, end \in ParanoidEnds}
    \cup {<<>>, <<"x", "\n">>, <<" ", "1", "\n">>}

NewParanoidProcess(use_syscall_buffer, fd_is_open, read_ok, contents) ==
    [use_syscall_buffer |-> use_syscall_buffer,
     fd_is_open |-> fd_is_open,
     read_ok |-> read_ok,
     contents |-> contents,
     file_opened |-> FALSE,
     logged |-> FALSE,
     stderr |-> <<>>,
     exited |-> FALSE,
     exit_status |-> 0,
     backtrace |-> FALSE,
     aborted |-> FALSE,
     created |-> FALSE]

InitParanoid ==
    /\ t \in {NewParanoidProcess(use_syscall_buffer, fd_is_open, read_ok, contents) :
                 use_syscall_buffer \in BOOLEAN, fd_is_open \in BOOLEAN,
                 read_ok \in BOOLEAN, contents \in ParanoidContents}
    /\ op = <<"new">>
    /\ ret = "none"

\* RecordSession::create: the session is created when the check returns.
CreateChecked ==
    /\ ~t.created
    /\ ~t.exited
    /\ LET p == create_check(t)
       IN  t' = [p EXCEPT !.created = ~p.exited]
    /\ op' = <<"create">>
    /\ ret' = "none"

NextParanoid == CreateChecked

\* rd record is run, for every state of perf_event_paranoid.
SpecParanoid == InitParanoid /\ [][NextParanoid]_vars

-----------------------------------------------------------------------------
(* The stashed signals, the cached signal mask and did_wait.               *)

\* The calls on the stash and on the mask that are followed together with
\* did_wait: stash calls of two signals, the pop of the head of the queue,
\* and the exit of a sigprocmask and of a getpid that succeeded.
StashSigWait ==
    \E sig \in {SIGUSR1, SIGCHLD} :
        /\ CanStash(stash_sig(t, sig, "NondeterministicSig"))
        /\ t' = stash_sig(t, sig, "NondeterministicSig")
        /\ op' = <<"stash_sig", sig>>
        /\ ret' = "none"

StashSyntheticSigWait ==
    \E sig \in {SIGUSR1, SIGCHLD} :
        /\ CanStash(stash_synthetic_sig(t, Siginfo(sig), "NondeterministicSig"))
        /\ t' = stash_synthetic_sig(t, Siginfo(sig), "NondeterministicSig")
        /\ op' = <<"stash_synthetic_sig", sig>>
        /\ ret' = "none"

PopStashSigWait ==
    /\ ~t.aborted
    /\ t.stashed_signals # <<>>
    /\ t' = pop_stash_sig(t, 1)
    /\ op' = <<"pop_stash_sig">>
    /\ ret' = "none"

GetSigmaskWait ==
    /\ ~t.aborted
    /\ t' = get_sigmask(t).task
    /\ op' = <<"get_sigmask">>
    /\ ret' = "none"

OnSyscallExitWait ==
    \E sys \in {"RT_SIGPROCMASK", "GETPID"} :
        /\ ~t.aborted
        /\ t' = on_syscall_exit_arch(t, sys, ExitRegs(FALSE, 0, 0, "null"))
        /\ op' = <<"on_syscall_exit", sys>>
        /\ ret' = "none"

UnblockSignalWait ==
    /\ ~t.aborted
    /\ t' = unblock_signal(t, SIGUSR1, "ok")
    /\ op' = <<"unblock_signal">>
    /\ ret' = "none"

\* did_wait of a task without a syscallbuf record to read.
DidWaitStashed ==
    /\ ~t.aborted
    /\ t' = did_wait(t, FALSE, 0, {})
    /\ op' = <<"did_wait">>
    /\ ret' = "none"

NextWait ==
    \/ StashSigWait
    \/ StashSyntheticSigWait
    \/ PopStashSigWait
    \/ StashedSignalProcessed
    \/ GetSigmaskWait
    \/ InvalidateSigmask
    \/ OnSyscallExitWait
    \/ UnblockSignalWait
    \/ DidWaitStashed

\* One task under every sequence of the calls that stash signals, that read
\* and invalidate the cached signal mask, and of did_wait.
SpecWait == Init /\ [][NextWait]_vars

-----------------------------------------------------------------------------
(* The stashed signal that is delivered next.                              *)

\* RecordTask::SIGCHLD_SYNTHETIC: 0xbeadf00d as an i32.
SIGCHLD_SYNTHETIC == -1095897075

\* is_synthetic_SIGCHLD that looks at the signal number alone.
is_synthetic_SIGCHLD_by_signo(si) == si.si_signo = SIGCHLD

\* is_synthetic_SIGCHLD
is_synthetic_SIGCHLD(si) ==
    si.si_signo = SIGCHLD /\ si.sival_int = SIGCHLD_SYNTHETIC

\* The first position of the queue whose entry the loop of
\* peek_stashed_sig_to_deliver returns, 0 when it runs to the end.
RECURSIVE FirstToDeliver(_, _)
FirstToDeliver(q, i) ==
    IF i > Len(q) THEN 0
    ELSE IF ~is_synthetic_SIGCHLD(q[i].siginfo) THEN i
    ELSE FirstToDeliver(q, i + 1)

\* peek_stashed_sig_to_deliver that returns the head of the queue.
peek_stashed_sig_head(task) ==
    IF task.stashed_signals = <<>> THEN 0 ELSE 1

\* RecordTask::peek_stashed_sig_to_deliver.  The result is the position of the
\* entry the returned reference refers to, 0 for None.
peek_stashed_sig_to_deliver(task) ==
    IF task.stashed_signals = <<>> THEN 0
    ELSE IF FirstToDeliver(task.stashed_signals, 1) # 0
    THEN FirstToDeliver(task.stashed_signals, 1)
    ELSE 1

\* The siginfos the queue is filled with: plain signals, a SIGCHLD the
\* recorder made for an emulated ptrace stop (its sigval is
\* SIGCHLD_SYNTHETIC), and a signal that is no SIGCHLD with that sigval.
PeekSiginfos ==
    {Siginfo(SIGUSR1), Siginfo(SIGCHLD), Siginfo(SIGRT2),
     [Siginfo(SIGCHLD) EXCEPT !.sival_int = SIGCHLD_SYNTHETIC],
     [Siginfo(SIGRT2) EXCEPT !.sival_int = SIGCHLD_SYNTHETIC]}

StashSigPeek ==
    \E sig \in {SIGUSR1, SIGCHLD, SIGRT2} :
        /\ CanStash(stash_sig(t, sig, "NondeterministicSig"))
        /\ t' = stash_sig(t, sig, "NondeterministicSig")
        /\ op' = <<"stash_sig", sig>>
        /\ ret' = 0

StashSyntheticSigPeek ==
    \E si \in PeekSiginfos :
        /\ CanStash(stash_synthetic_sig(t, si, "NondeterministicSig"))
        /\ t' = stash_synthetic_sig(t, si, "NondeterministicSig")
        /\ op' = <<"stash_synthetic_sig", si.si_signo>>
        /\ ret' = 0

PeekStashedSigToDeliver ==
    /\ ~t.aborted
    /\ t' = t
    /\ op' = <<"peek_stashed_sig_to_deliver", 0>>
    /\ ret' = peek_stashed_sig_to_deliver(t)

\* The signal peek_stashed_sig_to_deliver returned is taken off the queue and
\* delivered.
PopPeekedSig ==
    /\ ~t.aborted
    /\ op[1] = "peek_stashed_sig_to_deliver"
    /\ ret # 0
    /\ t' = pop_stash_sig(t, ret)
    /\ op' = <<"pop_stash_sig", ret>>
    /\ ret' = 0

InitPeek ==
    /\ t = NewTask
    /\ op = <<"new", 0>>
    /\ ret = 0

NextPeek ==
    \/ StashSigPeek
    \/ StashSyntheticSigPeek
    \/ PeekStashedSigToDeliver
    \/ PopPeekedSig

\* The stashed-signal queue of one task and the calls that choose the signal
\* to deliver.
SpecPeek == InitPeek /\ [][NextPeek]_vars

-----------------------------------------------------------------------------
(* The chaos setting of a recording session.                               *)

\* At most this many set_enable_chaos calls are made on a session.
MaxSetChaos == 2
\* At most this many tasks run the preload initialisation.
MaxPreloadInits == 2

\* The values of the num_cores record flag: 0 for None.
NumCoresFlags == {0, 1, 2}

\* Scheduler::new: chaos mode is off and one core is pretended.
NewScheduler == [enable_chaos |-> FALSE, pretend_num_cores |-> 1]

\* Scheduler::set_enable_chaos
scheduler_set_enable_chaos(sched, enable_chaos) ==
    [sched EXCEPT !.enable_chaos = enable_chaos]

\* Scheduler::set_num_cores
scheduler_set_num_cores(sched, num_cores) ==
    [sched EXCEPT !.pretend_num_cores = num_cores]

\* RecordSession::new, for its chaos and num_cores flags: enable_chaos_ is
\* bool's default, the scheduler is told of the chaos flag when it is set and
\* of the number of cores when one is given.  in_chaos holds the value of the
\* in_chaos preload global of each task that ran the preload initialisation
\* and raw_data the values recorded for them.
RecordSessionNew(chaos, num_cores) ==
    LET sched1 == IF chaos THEN scheduler_set_enable_chaos(NewScheduler, chaos)
                  ELSE NewScheduler
        sched2 == IF num_cores # 0 THEN scheduler_set_num_cores(sched1, num_cores)
                  ELSE sched1
    IN  [flags_chaos |-> chaos,
         enable_chaos_ |-> FALSE,
         scheduler_ |-> sched2,
         set_enable_chaos_calls |-> 0,
         in_chaos |-> <<>>,
         raw_data |-> <<>>]

\* RecordSession::set_enable_chaos
set_enable_chaos(s, enable_chaos) ==
    [s EXCEPT !.scheduler_ = scheduler_set_enable_chaos(@, enable_chaos),
              !.enable_chaos_ = enable_chaos,
              !.set_enable_chaos_calls = @ + 1]

\* RecordSession::enable_chaos
enable_chaos(s) == s.enable_chaos_

\* The u8 of a bool.
BoolAsU8(b) == IF b THEN 1 ELSE 0

\* do_preload_init_arch, for in_chaos: the value is written into the preload
\* globals of the task and recorded.
do_preload_init(s) ==
    LET in_chaos == BoolAsU8(enable_chaos(s))
    IN  [s EXCEPT !.in_chaos = Append(@, in_chaos),
                  !.raw_data = Append(@, in_chaos)]

InitChaos ==
    /\ \E chaos \in BOOLEAN, num_cores \in NumCoresFlags :
          /\ t = RecordSessionNew(chaos, num_cores)
          /\ op = <<"new", chaos>>
    /\ ret = FALSE

SetEnableChaos ==
    \E b \in BOOLEAN :
        /\ t.set_enable_chaos_calls < MaxSetChaos
        /\ t' = set_enable_chaos(t, b)
        /\ op' = <<"set_enable_chaos", b>>
        /\ ret' = FALSE

EnableChaos ==
    /\ t' = t
    /\ op' = <<"enable_chaos", FALSE>>
    /\ ret' = enable_chaos(t)

DoPreloadInit ==
    /\ Len(t.in_chaos) < MaxPreloadInits
    /\ t' = do_preload_init(t)
    /\ op' = <<"do_preload_init", FALSE>>
    /\ ret' = FALSE

NextChaos ==
    \/ SetEnableChaos
    \/ EnableChaos
    \/ DoPreloadInit

\* One recording session under every sequence of set_enable_chaos,
\* enable_chaos and preload initialisations.
SpecChaos == InitChaos /\ [][NextChaos]_vars

-----------------------------------------------------------------------------
(* The pending-event stack and the trace: properties.                      *)

\* C1: after RecordTask::new and any sequence of push_event, of the typed
\* pop_* helpers that return without an assertion failure and of
\* handle_seccomp_trap, the pending-event stack is non-empty and its bottom
\* element is the sentinel event.
C1_SentinelAtBottom ==
    ~t.aborted =>
        /\ t.pending_events # <<>>
        /\ t.pending_events[1].type = "EvSentinel"

\* A typed pop has returned and left the sentinel alone on a stack that
\* handle_seccomp_trap had been through.
C1_Witness ==
    /\ ~t.aborted
    /\ op[1] \in {"pop_noop", "pop_desched", "pop_seccomp_trap", "pop_signal_delivery",
                  "pop_signal_handler", "pop_syscall", "pop_syscall_interruption"}
    /\ t.continue_type = "DontContinue"
    /\ t.pending_events = <<PlainEvent("EvSentinel")>>

\* The positions of the syscall-entry frames of the tracee syscall sid in the
\* trace of the task.
EntryFrames(task, sid) ==
    {i \in 1..Len(task.trace) :
        /\ task.trace[i].type = "EvSyscall"
        /\ task.trace[i].sid = sid
        /\ task.trace[i].state = "EnteringSyscall"}

\* The positions of its syscall-exit frames.
ExitFrames(task, sid) ==
    {i \in 1..Len(task.trace) :
        /\ task.trace[i].type = "EvSyscall"
        /\ task.trace[i].sid = sid
        /\ task.trace[i].state = "ExitingSyscall"}

\* Before the trap no syscall event is on the stack.
TrapOnNoSyscallEvent(task) == ~is_syscall_event(ev(task))

\* Before the trap a syscall-interruption event that was not recorded is on
\* the stack.
TrapOnInterruption(task) ==
    /\ ev(task).type = "EvSyscallInterruption"
    /\ EntryFrames(task, ev(task).sid) = {}
    /\ ExitFrames(task, ev(task).sid) = {}

\* Before the trap a plain syscall event whose entry was recorded is on the
\* stack.
TrapOnRecordedSyscall(task) ==
    /\ ev(task).type = "EvSyscall"
    /\ Cardinality(EntryFrames(task, ev(task).sid)) = 1
    /\ ExitFrames(task, ev(task).sid) = {}

\* C2: when handle_seccomp_trap handles a trap taken inside a buffered
\* (untraced) syscall, the trace holds afterwards exactly one syscall-entry
\* frame and exactly one syscall-exit frame of the trapped syscall, the entry
\* before the exit, whether no syscall event, an unrecorded
\* syscall-interruption event or a recorded plain syscall event was on the
\* stack.
C2_OneEntryOneExit ==
    [][ ( /\ op'[1] = "handle_seccomp_trap"
          /\ op'[2]
          /\ ~t'.aborted
          /\ \/ TrapOnNoSyscallEvent(t)
             \/ TrapOnInterruption(t)
             \/ TrapOnRecordedSyscall(t) )
        => /\ Cardinality(EntryFrames(t', TrappedSid(t))) = 1
           /\ Cardinality(ExitFrames(t', TrappedSid(t))) = 1
           /\ \A i \in EntryFrames(t', TrappedSid(t)) :
                 \A j \in ExitFrames(t', TrappedSid(t)) : i < j ]_vars

\* A trap inside a buffered syscall was handled for a syscall whose entry
\* frame was written before the trap, by the syscall-entry stop, and whose
\* exit frame the handler wrote.
C2_Witness ==
    /\ ~t.aborted
    /\ op[1] = "handle_seccomp_trap"
    /\ op[2]
    /\ \E sid \in 1..MaxSyscalls :
          /\ Cardinality(EntryFrames(t, sid)) = 1
          /\ Cardinality(ExitFrames(t, sid)) = 1
          /\ t.trace[Len(t.trace)].sid = sid
          /\ \E i \in EntryFrames(t, sid) :
                /\ i < Len(t.trace)
                /\ ~t.trace[i].failed_during_preparation

-----------------------------------------------------------------------------
(* The stashed-signal queue: properties.                                   *)

StashCalled == op[1] \in {"stash_sig", "stash_synthetic_sig"}

AllStashFlags(task) ==
    /\ task.break_at_syscallbuf_traced_syscalls
    /\ task.break_at_syscallbuf_untraced_syscalls
    /\ task.break_at_syscallbuf_final_instruction
    /\ task.stashed_signals_blocking_more_signals

\* C3: after any sequence of stash_sig, stash_synthetic_sig and pop_stash_sig
\* the queue holds at most one entry for each signal number below SIGRTMIN.
C3_NonRtCoalesce ==
    \A i, j \in 1..Len(t.stashed_signals) :
        (/\ t.stashed_signals[i].siginfo.si_signo = t.stashed_signals[j].siginfo.si_signo
         /\ t.stashed_signals[i].siginfo.si_signo < SIGRTMIN) => i = j

\* C3's case: a stash of SIGUSR1 was dropped by coalescing while the queue
\* holds one SIGUSR1 and several entries of one realtime signal.
C3_Witness ==
    /\ StashCalled /\ op[2] = SIGUSR1 /\ t.last_stash = "dropped"
    /\ Cardinality(QueuedAt(t, SIGUSR1)) = 1
    /\ Cardinality(QueuedAt(t, SIGRT2)) >= 2

\* C4: stash_synthetic_sig for a non-realtime signal that already has a queued
\* entry: a deterministic occurrence replaces a queued nondeterministic one and
\* goes to the front (same length, deterministic head, the other entries in
\* their order); in every other case the queue is left exactly as it was.
C4_SyntheticSupersede ==
    [][(/\ op'[1] = "stash_synthetic_sig" /\ ~t'.aborted
        /\ op'[2] < SIGRTMIN /\ QueuedAt(t, op'[2]) # {})
       => LET q == t.stashed_signals
              pos == Min(QueuedAt(t, op'[2]))
          IN  IF op'[3] = "DeterministicSig" /\ q[pos].deterministic = "NondeterministicSig"
              THEN /\ Len(t'.stashed_signals) = Len(q)
                   /\ t'.stashed_signals[1].siginfo.si_signo = op'[2]
                   /\ t'.stashed_signals[1].deterministic = "DeterministicSig"
                   /\ Tail(t'.stashed_signals) = RemoveAt(q, pos)
              ELSE t'.stashed_signals = q]_vars

\* C4's case: a deterministic synthetic SIGUSR1 has replaced a queued
\* nondeterministic one that was not at the head.
C4_Witness ==
    /\ op = <<"stash_synthetic_sig", SIGUSR1, "DeterministicSig">>
    /\ t.last_stash = "superseded"
    /\ Len(t.stashed_signals) >= 2
    /\ t.stashed_signals[1].siginfo.si_signo = SIGUSR1
    /\ t.stashed_signals[1].deterministic = "DeterministicSig"

\* C5 as claimed: stash_sig of a deterministic occurrence of a non-realtime
\* signal whose queued entry is nondeterministic removes that entry and puts
\* the deterministic one at the front.
C5_StashSigSupersedes ==
    [][(/\ op'[1] = "stash_sig" /\ ~t'.aborted
        /\ op'[2] < SIGRTMIN /\ QueuedAt(t, op'[2]) # {}
        /\ op'[3] = "DeterministicSig"
        /\ t.stashed_signals[Min(QueuedAt(t, op'[2]))].deterministic = "NondeterministicSig")
       => /\ Len(t'.stashed_signals) = Len(t.stashed_signals)
          /\ t'.stashed_signals[1].siginfo.si_signo = op'[2]
          /\ t'.stashed_signals[1].deterministic = "DeterministicSig"]_vars

\* C5, amended: stash_sig has no supersede rule.  For a non-realtime signal
\* that already has a queued entry it leaves the queue exactly as it was,
\* whatever the two determinism flags are; otherwise it appends the signal
\* at the back.
C5_StashSigDrops ==
    [][(op'[1] = "stash_sig" /\ ~t'.aborted)
       => IF op'[2] < SIGRTMIN /\ QueuedAt(t, op'[2]) # {}
          THEN t'.stashed_signals = t.stashed_signals
          ELSE /\ Front(t'.stashed_signals) = t.stashed_signals
               /\ Len(t'.stashed_signals) = Len(t.stashed_signals) + 1
               /\ t'.stashed_signals[Len(t'.stashed_signals)].siginfo.si_signo = op'[2]
               /\ t'.stashed_signals[Len(t'.stashed_signals)].deterministic = op'[3]]_vars

\* C5's case: a deterministic SIGUSR1 was dropped by stash_sig and the queued
\* SIGUSR1 is still the nondeterministic one.
C5_Witness ==
    /\ op = <<"stash_sig", SIGUSR1, "DeterministicSig">>
    /\ t.last_stash = "dropped"
    /\ \E i \in QueuedAt(t, SIGUSR1) :
           t.stashed_signals[i].deterministic = "NondeterministicSig"

\* C6: whenever the queue is non-empty the three break_at_syscallbuf flags and
\* stashed_signals_blocking_more_signals are all true, and they are all true
\* when a stash call returns, also one that was dropped by coalescing.
C6_FlagsWhileStashed ==
    (~t.aborted /\ (has_any_stashed_sig(t) \/ StashCalled)) => AllStashFlags(t)

\* C6's case: a stash call was dropped by coalescing after an entry had left
\* the queue, and the flags are set.
C6_Witness ==
    /\ StashCalled /\ t.last_stash = "dropped" /\ ~t.aborted
    /\ Len(t.stashed_signals) < t.stash_calls
    /\ AllStashFlags(t)

\* C7 as claimed: when pop_stash_sig has emptied the queue,
\* stashed_signals_blocking_more_signals is false when it returns.
C7_PopClearsFlag ==
    (op[1] = "pop_stash_sig" /\ ~t.aborted /\ t.stashed_signals = <<>>)
        => ~t.stashed_signals_blocking_more_signals

\* C7, amended: pop_stash_sig removes exactly the identified entry, keeps the
\* order of the others and changes no flag; stashed_signals_blocking_more_signals
\* stays true until stashed_signal_processed, which leaves the queue alone and
\* sets the flag to whether the queue is non-empty.
C7_PopRemovesOnly ==
    [][/\ (op'[1] = "pop_stash_sig" /\ ~t'.aborted)
          => t' = [t EXCEPT !.stashed_signals = RemoveAt(@, op'[2])]
       /\ (op'[1] = "stashed_signal_processed" /\ ~t'.aborted)
          => /\ t'.stashed_signals = t.stashed_signals
             /\ t'.stashed_signals_blocking_more_signals = (t.stashed_signals # <<>>)]_vars

\* C7's case: pop_stash_sig has emptied the queue and the flag is still set.
C7_Witness ==
    /\ op[1] = "pop_stash_sig" /\ ~t.aborted
    /\ t.stashed_signals = <<>>
    /\ t.stashed_signals_blocking_more_signals

\* C8 as claimed: of two queued signals the one stashed earlier is nearer the
\* head.
C8_Fifo ==
    \A i, j \in 1..Len(t.stashed_signals) :
        i < j => t.stashed_signals[i].order < t.stashed_signals[j].order

\* C8, amended: the queue is first-in first-out only among the signals
\* stashed by stash_sig, which appends.  stash_synthetic_sig inserts at the
\* head: every queued synthetic signal is nearer the head than every signal
\* stashed by stash_sig, and of two synthetic signals the one stashed later
\* is nearer the head.
C8_Order ==
    \A i, j \in 1..Len(t.stashed_signals) :
        i < j =>
            LET a == t.stashed_signals[i]
                b == t.stashed_signals[j]
            IN  /\ a.via = "stash_sig" => (b.via = "stash_sig" /\ a.order < b.order)
                /\ b.via = "stash_synthetic_sig" =>
                       (a.via = "stash_synthetic_sig" /\ a.order > b.order)

\* C8's case: a synthetic signal stashed last is at the head, before two
\* signals stashed by stash_sig that are in the order of their stashing.
C8_Witness ==
    /\ Len(t.stashed_signals) = 3
    /\ t.stashed_signals[1].via = "stash_synthetic_sig"
    /\ t.stashed_signals[2].via = "stash_sig"
    /\ t.stashed_signals[3].via = "stash_sig"
    /\ t.stashed_signals[1].order > t.stashed_signals[3].order
    /\ t.stashed_signals[2].order < t.stashed_signals[3].order

-----------------------------------------------------------------------------
(* Signal dispositions: properties.                                        *)

\* sig is ignored by the task: it can be stopped, and its entry is SIG_IGN,
\* or SIG_DFL with a default action that ignores it.
Ignored(task, sig) ==
    /\ sig \notin {SIGKILL, SIGSTOP}
    /\ \/ sig_disposition(task, sig) = "SignalIgnore"
       \/ sig_disposition(task, sig) = "SignalDefault" /\ default_action(sig) = "Ignore"

\* sig is blocked for the task: it can be stopped, and its bit is set in the
\* mask of the task, which is the cached mask unless the cache is dirty.
Blocked(task, sig) ==
    /\ sig \notin {SIGKILL, SIGSTOP}
    /\ (sig - 1) \in (IF task.blocked_sigs_dirty THEN task.kernel_sigmask
                      ELSE task.blocked_sigs)

\* The disposition C9 states.
Resolved(task, sig, deterministic) ==
    IF \/ task.received_sigframe_sigsegv
       \/ /\ default_action(sig) \in {"DumpCore", "Terminate"}
          /\ \/ Ignored(task, sig) /\ deterministic = "DeterministicSig"
             \/ ~Ignored(task, sig) /\ sig_disposition(task, sig) # "SignalHandler"
    THEN "DispositionFatal"
    ELSE IF sig_disposition(task, sig) = "SignalHandler" /\ ~Blocked(task, sig)
    THEN "DispositionUserHandler"
    ELSE "DispositionIgnored"

\* C9: sig_resolved_disposition returns Fatal iff the thread group received a
\* sigframe SIGSEGV, or the default action of the signal is dump-core or
\* terminate and either the signal is ignored and the occurrence
\* deterministic, or the signal is not ignored and has no user handler;
\* otherwise UserHandler iff a user handler is installed and the signal is
\* not blocked; otherwise Ignored.
C9_ResolvedDisposition ==
    [][op'[1] = "sig_resolved_disposition"
          => ret' = Resolved(t, op'[2], op'[3])]_vars

\* C9's case: a deterministic occurrence of a signal that is set to SIG_IGN
\* and blocked, in a thread group that received no sigframe SIGSEGV, is fatal.
C9_Witness ==
    /\ op[1] = "sig_resolved_disposition"
    /\ op[3] = "DeterministicSig"
    /\ ~t.received_sigframe_sigsegv
    /\ sig_disposition(t, op[2]) = "SignalIgnore"
    /\ Blocked(t, op[2])
    /\ ret = "DispositionFatal"

\* C10: for SIGKILL and SIGSTOP is_sig_blocked and is_sig_ignored return
\* false whatever the cached mask, the mask in the kernel and the handler
\* table hold, and is_sig_blocked leaves the cache of the mask as it was.
C10_Unstoppable ==
    [][/\ (op'[1] = "is_sig_blocked" /\ op'[2] \in {SIGKILL, SIGSTOP})
          => /\ ret' = FALSE
             /\ t'.blocked_sigs = t.blocked_sigs
             /\ t'.blocked_sigs_dirty = t.blocked_sigs_dirty
       /\ (op'[1] = "is_sig_ignored" /\ op'[2] \in {SIGKILL, SIGSTOP})
          => ret' = FALSE]_vars

\* C10's case: is_sig_blocked has returned false for SIGKILL while the table
\* stores SIG_IGN for it, its bit is set in the mask in the kernel and the
\* cache, which does not hold the bit, is still dirty.
C10_Witness ==
    /\ op = <<"is_sig_blocked", SIGKILL>>
    /\ ret = FALSE
    /\ sig_disposition(t, SIGKILL) = "SignalIgnore"
    /\ (SIGKILL - 1) \in t.kernel_sigmask
    /\ (SIGKILL - 1) \notin t.blocked_sigs
    /\ t.blocked_sigs_dirty

-----------------------------------------------------------------------------
(* The cached signal mask: properties.                                     *)

\* C11: get_sigmask returns the cached blocked_sigs and reads nothing from
\* the kernel when blocked_sigs_dirty is clear; when the flag is set it reads
\* the mask from the process, stores it, clears the flag and returns it; a
\* get_sigmask that directly follows a get_sigmask returns the same value and
\* reads nothing.
C11_CachedSigmask ==
    [][op'[1] = "get_sigmask" =>
         /\ ~t.blocked_sigs_dirty =>
               (op'[2] = "none" /\ ret' = t.blocked_sigs /\ t' = t)
         /\ t.blocked_sigs_dirty =>
               /\ op'[2] \in {"ptrace", "proc"}
               /\ ret' = IF op'[2] = "ptrace" THEN t.ptrace_sigmask ELSE t.kernel_sigmask
               /\ t'.blocked_sigs = ret'
               /\ ~t'.blocked_sigs_dirty
         /\ op[1] = "get_sigmask" => (op'[2] = "none" /\ ret' = ret)]_vars

\* C11's case: get_sigmask has returned a cached mask that the kernel no
\* longer holds, without reading the kernel.
C11_Witness ==
    /\ op = <<"get_sigmask", "none">>
    /\ ret = t.blocked_sigs
    /\ t.blocked_sigs_source # "none"
    /\ ret # t.kernel_sigmask
    /\ ret # t.ptrace_sigmask

\* C12 as claimed: after on_syscall_exit for a syscall that may change the
\* signal mask and was not skipped, whatever result it returned, and after
\* unblock_signal, blocked_sigs_dirty is set.
C12_MaskChangeSetsDirty ==
    [][/\ (op'[1] = "on_syscall_exit" /\ op'[2] \in SigmaskSyscalls /\ ~op'[4])
          => t'.blocked_sigs_dirty
       /\ (op'[1] = "unblock_signal" /\ ~t'.aborted)
          => t'.blocked_sigs_dirty]_vars

\* C13 as claimed: the mask every get_sigmask returns at a restartable-syscall
\* state is SigBlk of /proc/<tid>/status and was not read with
\* PTRACE_GETSIGMASK.
C13_RestartMaskFromProc ==
    [][(op'[1] = "get_sigmask" /\ at_may_restart_syscall(t))
          => /\ ret' = t.kernel_sigmask
             /\ t'.blocked_sigs_source # "ptrace"]_vars

\* C13, amended: at a restartable-syscall state get_sigmask never reads with
\* PTRACE_GETSIGMASK: a dirty cache is refreshed from SigBlk of
\* /proc/<tid>/status, which is returned; a clean cache is returned as it is,
\* wherever it was read and whatever SigBlk holds.
C13_RestartRefreshFromProc ==
    [][(op'[1] = "get_sigmask" /\ at_may_restart_syscall(t))
          => /\ op'[2] # "ptrace"
             /\ t.blocked_sigs_dirty =>
                   /\ op'[2] = "proc"
                   /\ ret' = t.kernel_sigmask
                   /\ t'.blocked_sigs_source = "proc"
             /\ ~t.blocked_sigs_dirty =>
                   /\ op'[2] = "none"
                   /\ ret' = t.blocked_sigs
                   /\ t'.blocked_sigs_source = t.blocked_sigs_source]_vars

\* C13's case: below a signal delivery that lies on a syscall interruption,
\* get_sigmask has refreshed the cache from SigBlk while PTRACE_GETSIGMASK
\* works and reports another mask.
C13_Witness ==
    /\ op = <<"get_sigmask", "proc">>
    /\ ev(t).type = "EvSignalDelivery"
    /\ at_may_restart_syscall(t)
    /\ ~t.getsigmask_fails
    /\ ret = t.kernel_sigmask
    /\ ret # t.ptrace_sigmask

-----------------------------------------------------------------------------
(* Syscall restarts: properties.                                           *)

\* The syscall the task is entering, with restart_syscall standing for the
\* interrupted syscall, has the number and the six argument registers of the
\* event on top of the stack.
SameSyscall(task) ==
    /\ (IF task.regs.original_syscallno = RESTART_SYSCALL THEN ev(task).number
        ELSE task.regs.original_syscallno) = ev(task).number
    /\ task.regs.args = ev(task).args

\* C14 as claimed: is_syscall_restart returns true iff the top event is a
\* syscall-interruption and the syscall the task is entering has the same
\* number and the same six argument registers: it returns false when the
\* argument registers differ, also when the task is entering restart_syscall.
C14_RestartIffSame ==
    op[1] = "is_syscall_restart" =>
        (ret <=> (ev(t).type = "EvSyscallInterruption" /\ SameSyscall(t)))

\* C14, amended: is_syscall_restart returns true iff the top event is a
\* syscall-interruption and either the task is entering restart_syscall,
\* whatever its argument registers hold, or the syscall it is entering has the
\* number and the six argument registers of that event.
C14_RestartIffSameOrRestartSyscall ==
    op[1] = "is_syscall_restart" =>
        (ret <=> /\ ev(t).type = "EvSyscallInterruption"
                 /\ \/ t.regs.original_syscallno = RESTART_SYSCALL
                    \/ /\ t.regs.original_syscallno = ev(t).number
                       /\ t.regs.args = ev(t).args)

\* C14's case: is_syscall_restart has returned true for a task that is
\* entering restart_syscall with argument registers that differ from those of
\* the interrupted syscall.
C14_Witness ==
    /\ op[1] = "is_syscall_restart"
    /\ ret = TRUE
    /\ ev(t).type = "EvSyscallInterruption"
    /\ t.regs.original_syscallno = RESTART_SYSCALL
    /\ t.regs.args # ev(t).args

-----------------------------------------------------------------------------
(* The syscallbuf: properties.                                             *)

\* record_event has returned for an event that has a reliable tick count,
\* with the reset of the syscallbuf allowed.
RecordedWithResetAllowed ==
    /\ op[1] = "record_event"
    /\ ~has_ticks_slop(PlainEvent(op[2]))
    /\ op[4] = "AllowResetSyscallbuf"
    /\ ~t.aborted

\* The frames of type `type` the step has appended to the trace.
NewFrames(type) ==
    {i \in (Len(t.trace) + 1)..Len(t'.trace) : t'.trace[i].type = type}

\* C15 as claimed: after record_event returns for an event that has a reliable
\* tick count with reset allowed, num_rec_bytes of the syscallbuf is zero, in
\* every state of the flushed and delay flags.
C15_ZeroAfterRecord == RecordedWithResetAllowed => t.hdr_num_rec_bytes = 0

\* C15, amended: after record_event returns for an event that has a reliable
\* tick count with reset allowed, num_rec_bytes of the syscallbuf is zero when
\* neither delay_syscallbuf_reset_for_desched nor
\* delay_syscallbuf_reset_for_seccomp_trap is set.
C15_ZeroUnlessDelayed ==
    (/\ RecordedWithResetAllowed
     /\ ~t.delay_syscallbuf_reset_for_desched
     /\ ~t.delay_syscallbuf_reset_for_seccomp_trap) => t.hdr_num_rec_bytes = 0

\* C15's case: record_event has flushed a buffer that held records, written
\* the frame of its event and reset the buffer.
C15_Witness ==
    /\ RecordedWithResetAllowed
    /\ Len(t.trace) >= 3
    /\ t.trace[Len(t.trace) - 2].type = "EvSyscallbufFlush"
    /\ t.trace[Len(t.trace) - 1].type = op[2]
    /\ t.trace[Len(t.trace)].type = "EvSyscallbufReset"
    /\ t.hdr_num_rec_bytes = 0

\* C16: maybe_reset_syscallbuf resets iff flushed_syscallbuf is set and
\* neither delay flag is set; when it resets it clears flushed_syscallbuf,
\* zeroes the record count of the buffer and
\* syscallbuf_blocked_sigs_generation, and appends one syscallbuf-reset frame
\* to the trace; when it does not reset it changes no state and writes no
\* frame.
C16_ResetIffFlushedAndNotDelayed ==
    [][op'[1] = "maybe_reset_syscallbuf" =>
          IF /\ t.flushed_syscallbuf
             /\ ~t.delay_syscallbuf_reset_for_desched
             /\ ~t.delay_syscallbuf_reset_for_seccomp_trap
          THEN t' = [t EXCEPT !.flushed_syscallbuf = FALSE,
                              !.hdr_num_rec_bytes = 0,
                              !.syscallbuf_blocked_sigs_generation = 0,
                              !.trace = Append(@, PlainEvent("EvSyscallbufReset"))]
          ELSE t' = t]_vars

\* C16's case: maybe_reset_syscallbuf has reset the buffer.
C16_Witness ==
    /\ op[1] = "maybe_reset_syscallbuf"
    /\ t.trace # <<>>
    /\ t.trace[Len(t.trace)].type = "EvSyscallbufReset"
    /\ ~t.flushed_syscallbuf
    /\ t.hdr_num_rec_bytes = 0
    /\ t.syscallbuf_blocked_sigs_generation = 0

\* C17: handle_seccomp_trap for a task inside a buffered syscall returns with
\* delay_syscallbuf_reset_for_seccomp_trap set and a seccomp-trap event on top
\* of the event stack, and no step that ends with the flag set records a
\* syscallbuf-reset event: neither the handler, which records the entry and
\* the exit of the syscall, nor a later record_event.
C17_NoResetWhileTrapDelays ==
    [][/\ (op'[1] = "handle_seccomp_trap" /\ op'[2] /\ ~t'.aborted) =>
              /\ t'.delay_syscallbuf_reset_for_seccomp_trap
              /\ ev(t').type = "EvSeccompTrap"
       /\ t'.delay_syscallbuf_reset_for_seccomp_trap =>
              NewFrames("EvSyscallbufReset") = {}]_vars

\* C17's case: after a seccomp trap in a buffered syscall, while the flag is
\* still set, record_event has flushed the buffer and recorded an event that
\* has a reliable tick count, with reset allowed.
C17_Witness ==
    /\ RecordedWithResetAllowed
    /\ t.delay_syscallbuf_reset_for_seccomp_trap
    /\ ev(t).type = "EvSeccompTrap"
    /\ t.flushed_syscallbuf
    /\ t.hdr_num_rec_bytes > 0
    /\ \E i \in 1..Len(t.trace) :
          /\ is_syscall_event(t.trace[i])
          /\ t.trace[i].state = "ExitingSyscall"

-----------------------------------------------------------------------------
(* Seccomp traps and the stashed-signal queue: properties.                 *)

\* Entry e of the stashed-signal queue is the deterministic synthetic SIGSYS
\* of a seccomp trap with filter data `data` in syscall `no` of a tracee of
\* architecture arch.
IsTrapSigsys(e, arch, no, data) ==
    /\ e.deterministic = "DeterministicSig"
    /\ e.via = "stash_synthetic_sig"
    /\ e.siginfo.si_signo = SIGSYS
    /\ e.siginfo.si_code = "SYS_SECCOMP"
    /\ e.siginfo.si_errno = data
    /\ e.siginfo.sigsys_syscall = no
    /\ e.siginfo.sigsys_arch =
          IF arch = "X64" THEN "AUDIT_ARCH_X86_64" ELSE "AUDIT_ARCH_I386"

\* The head of the stashed-signal queue is the SIGSYS of the trap that
\* handle_seccomp_trap has just handled.
HeadIsTrapSigsys ==
    /\ t.stashed_signals # <<>>
    /\ IsTrapSigsys(t.stashed_signals[1], t.arch, op[3], op[4])

-----------------------------------------------------------------------------
(* Recording the memory of the tracee, and the end of a task: properties.  *)

\* The plain memory-recording calls.
PlainRecordCalls ==
    {"record_local", "record_remote", "record_remote_fallible", "record_remote_writable"}

\* C19: with a null address every plain memory-recording call (record_local,
\* record_remote, record_remote_fallible, record_remote_writable) writes no
\* raw-data record, and record_remote_even_if_null writes exactly one record,
\* of length zero.
C19_NullAddressWritesNoRecord ==
    [][(/\ op'[1] \in PlainRecordCalls \cup {"record_remote_even_if_null"}
        /\ op'[2] = 0
        /\ ~t'.aborted) =>
          /\ op'[1] \in PlainRecordCalls => t'.raw_data = t.raw_data
          /\ op'[1] = "record_remote_even_if_null" =>
                /\ Len(t'.raw_data) = Len(t.raw_data) + 1
                /\ Front(t'.raw_data) = t.raw_data
                /\ t'.raw_data[Len(t'.raw_data)].addr = 0
                /\ t'.raw_data[Len(t'.raw_data)].data = <<>>]_vars

\* The raw-data record drop writes for the tid futex: the value zero at the
\* address of the futex, in the frame of the exit event.
TidFutexRecord(task) ==
    [addr |-> task.tid_futex, data |-> <<0>>, time |-> Len(task.trace)]

\* C20 as claimed: after a task is destroyed following a stable exit while it
\* is the last task of its address space and its tid futex address is not
\* null, the tracer has waited for the futex to read 0 and has written a
\* raw-data record that holds zero at the futex address, and that record
\* precedes the exit event of the task in the trace.
C20_LastTaskFutexRecorded ==
    (/\ op[1] = "drop" /\ ~t.aborted
     /\ ~t.unstable /\ t.vm_task_set_len = 1 /\ t.tid_futex \in MappedAddrs) =>
        /\ t.mem[t.tid_futex] = 0
        /\ t.raw_data # <<>>
        /\ t.raw_data[Len(t.raw_data)] = TidFutexRecord(t)
        /\ t.trace[Len(t.trace)].type = "EvExit"

\* C20, amended: a task that is destroyed records its exit event last.  When
\* its exit is stable, its tid futex address is not null and can be read, and
\* the task set of its address space holds more than one task, the tracer has
\* waited for the futex to read 0 and has written, before the exit event and
\* in its frame, one raw-data record that holds zero at the futex address;
\* otherwise, and so when the task is the last one of its address space, it
\* writes no raw-data record.
C20_SharedFutexRecorded ==
    [][(op'[1] = "drop" /\ ~t'.aborted) =>
          /\ t'.destroyed
          /\ t'.trace # <<>>
          /\ t'.trace[Len(t'.trace)].type = "EvExit"
          /\ IF WaitsForTidFutex(t) /\ t.tid_futex \in MappedAddrs
             THEN /\ t.mem[t.tid_futex] = 0
                  /\ t'.raw_data = Append(t.raw_data, TidFutexRecord(t'))
             ELSE t'.raw_data = t.raw_data]_vars

\* C20's case: a task with a syscallbuf that shares its address space was
\* destroyed after a stable exit, and the record of its tid futex is in the
\* frame of its exit event.
C20_Witness ==
    /\ op[1] = "drop"
    /\ ~t.aborted
    /\ ~t.unstable
    /\ t.vm_task_set_len > 1
    /\ t.tid_futex \in MappedAddrs
    /\ t.raw_data = <<TidFutexRecord(t)>>
    /\ Len(t.trace) = 2
    /\ t.trace[1].type = "EvSyscallbufFlush"
    /\ t.trace[2].type = "EvExit"

-----------------------------------------------------------------------------
(* The handler tables of the session: properties.                          *)

\* The handler table the task tid of the session s refers to.
Table(s, tid) == s.sighandlers[s.tasks[tid].sighandlers]

\* C21: after post_exec every signal that had a user handler has the default
\* disposition in the table of the task that exec'ed, with resethand and
\* takes_siginfo clear, every signal that was SIG_IGN or SIG_DFL has the
\* entry it had, and the table of every other task, the former siblings
\* included, is as it was.
C21_PostExecResetsCopy ==
    [][(op'[1] = "post_exec" /\ ~t'.aborted) =>
          /\ \A sig \in ModelSigs :
                IF disposition(Table(t, op'[2])[sig]) = "SignalHandler"
                THEN /\ disposition(Table(t', op'[2])[sig]) = "SignalDefault"
                     /\ ~Table(t', op'[2])[sig].resethand
                     /\ ~Table(t', op'[2])[sig].takes_siginfo
                ELSE Table(t', op'[2])[sig] = Table(t, op'[2])[sig]
          /\ \A x \in t.live \ {op'[2]} : Table(t', x) = Table(t, x)]_vars

\* C21's case: a task has exec'ed and reports SIGUSR1 as default with both
\* flags clear and SIGCHLD as ignored, while another task still has the user
\* handler of SIGUSR1, with resethand and takes_siginfo set, and SIGCHLD
\* ignored by the same entry.
C21_Witness ==
    /\ op[1] = "post_exec"
    /\ ~t.aborted
    /\ disposition(Table(t, op[2])[SIGUSR1]) = "SignalDefault"
    /\ ~Table(t, op[2])[SIGUSR1].resethand
    /\ ~Table(t, op[2])[SIGUSR1].takes_siginfo
    /\ disposition(Table(t, op[2])[SIGCHLD]) = "SignalIgnore"
    /\ \E x \in t.live \ {op[2]} :
          /\ disposition(Table(t, x)[SIGUSR1]) = "SignalHandler"
          /\ Table(t, x)[SIGUSR1].resethand
          /\ Table(t, x)[SIGUSR1].takes_siginfo
          /\ Table(t, x)[SIGCHLD] = Table(t, op[2])[SIGCHLD]

\* What the task tid of the session s reports for sig: the disposition, the
\* user handler, the takes-siginfo flag and the sigaction bytes.
Reported(s, tid, sig) ==
    <<sig_disposition(Self(s, tid), sig),
      get_signal_user_handler(Self(s, tid), sig),
      signal_handler_takes_siginfo(Self(s, tid), sig),
      signal_action(Self(s, tid), sig)>>

\* The tasks that refer to the handler table the task tid refers to.
Sharers(s, tid) ==
    {x \in s.live : s.tasks[x].sighandlers = s.tasks[tid].sighandlers}

\* C22: after a task applied a sigaction call that succeeded with a new
\* action, or reset the handler of a signal, every task that referred to the
\* same handler table reports for the signal what that task reports: the
\* handler and the siginfo flag of the new action, or the default.
C22_SharedTableUpdate ==
    [][/\ (/\ op'[1] = "sigaction"
           /\ ~t'.aborted
           /\ ~op'[4]
           /\ op'[5] # 0)
          => \A x \in Sharers(t, op'[2]) :
                /\ Reported(t', x, op'[3]) = Reported(t', op'[2], op'[3])
                /\ Reported(t', x, op'[3])[1] = disposition(op'[6].ksa)
                /\ Reported(t', x, op'[3])[3] = op'[6].ksa.siginfo
       /\ (op'[1] = "did_set_sig_handler_default" /\ ~t'.aborted)
          => \A x \in Sharers(t, op'[2]) :
                /\ Reported(t', x, op'[3]) = Reported(t', op'[2], op'[3])
                /\ Reported(t', x, op'[3])[1] = "SignalDefault"]_vars

\* C22's case: a task has installed a user handler that takes a siginfo, and
\* another task that refers to the same table reports that handler.
C22_Witness ==
    /\ op[1] = "sigaction"
    /\ ~t.aborted
    /\ ~op[4]
    /\ op[5] # 0
    /\ \E x \in Sharers(t, op[2]) \ {op[2]} :
          /\ Reported(t, x, op[3])[1] = "SignalHandler"
          /\ Reported(t, x, op[3])[2] = 2
          /\ Reported(t, x, op[3])[3]
          /\ Reported(t, x, op[3])[4] = <<1>>

-----------------------------------------------------------------------------
(* The check of the signal state: properties.                              *)

\* The SigBlk, SigIgn and SigCgt fields agree with the state of the task:
\* SIGKILL and SIGSTOP are not blocked, not ignored and not caught, and for
\* every other signal the blocked bit is is_sig_blocked, the ignored bit a
\* SIG_IGN disposition and the caught bit a user-handler disposition.
KernelAgrees(task, blocked, ignored, caught) ==
    \A sig \in VerifiedSigs :
        IF sig \in {SIGKILL, SIGSTOP}
        THEN /\ (sig - 1) \notin blocked
             /\ (sig - 1) \notin ignored
             /\ (sig - 1) \notin caught
        ELSE /\ ((sig - 1) \in blocked) = Blocked(task, sig)
             /\ ((sig - 1) \in ignored) = (sig_disposition(task, sig) = "SignalIgnore")
             /\ ((sig - 1) \in caught) = (sig_disposition(task, sig) = "SignalHandler")

\* C23: verify_signal_states raises no assertion when the fields the kernel
\* reports agree with the state of the task and the top event is not a
\* syscall event.
C23_NoAssertionWhenKernelAgrees ==
    [][(/\ op'[1] = "verify_signal_states"
        /\ ~is_syscall_event(ev(t))
        /\ KernelAgrees(t, op'[2], op'[3], op'[4]))
          => ~t'.aborted]_vars

-----------------------------------------------------------------------------
(* The robust-futex list: properties.                                      *)

\* What robust_list and robust_list_len return for the task tid.
RobustList(s, tid) == <<robust_list(s.tasks[tid]), robust_list_len(s.tasks[tid])>>

\* C24: the exit of a set_robust_list(p, n) that succeeded and was not
\* skipped leaves robust_list and robust_list_len returning (p, n); post_exec
\* leaves them returning (null, 0); every other call, the exit of a
\* set_robust_list that failed or was skipped and the exit of any other
\* syscall included, leaves what they return as it was, for every task.
C24_RobustListUntilNextCall ==
    [][~t'.aborted =>
         \A tid \in t.live :
            IF /\ op'[1] = "on_syscall_exit"
               /\ op'[2] = tid
               /\ op'[3] = "SET_ROBUST_LIST"
               /\ ~op'[4]
               /\ ~op'[5]
            THEN RobustList(t', tid) = <<op'[6], op'[7]>>
            ELSE IF op'[1] = "post_exec" /\ op'[2] = tid
            THEN RobustList(t', tid) = <<0, 0>>
            ELSE RobustList(t', tid) = RobustList(t, tid)]_vars

\* C24's case: the list set by an earlier set_robust_list(2, 24) is still
\* returned after the exit of a set_robust_list(1, 0) that failed.
C24_Witness ==
    /\ ~t.aborted
    /\ op[1] = "on_syscall_exit"
    /\ op[3] = "SET_ROBUST_LIST"
    /\ op[4]
    /\ op[6] = 1
    /\ op[7] = 0
    /\ RobustList(t, op[2]) = <<2, 24>>

\* The lines of a content of fdinfo, each with its newline.
RECURSIVE LinesOf(_)
LinesOf(text) ==
    IF text = <<>> THEN <<>>
    ELSE <<SubSeq(text, 1, LineEnd(text, 1))>>
         \o LinesOf(SubSeq(text, LineEnd(text, 1) + 1, Len(text)))

\* The positions of the pos lines among the lines of a content of fdinfo.
PosLinesOf(text) ==
    {i \in 1..Len(LinesOf(text)) :
        LinesOf(text)[i] \in {PosLine(<<"4", "2">>), PosLine(<<"5">>)}}

\* The value on the pos line of a content that has one pos line.
PosOf(text) ==
    IF LinesOf(text)[CHOOSE i \in PosLinesOf(text) : TRUE] = PosLine(<<"4", "2">>)
    THEN 42 ELSE 5

\* C25: for a write or writev while recording, with an fdinfo that has one
\* well-formed pos line, whatever lines precede or follow it, and a call that
\* wrote `result` bytes, retrieve returns pos - result, and no offset when
\* pos < result.
C25_WriteOffsetFromFdinfo ==
    [][(/\ op'[1] = "retrieve"
        /\ ~t.is_replaying
        /\ is_implict_offset_syscall(t.syscallno)
        /\ Cardinality(PosLinesOf(t.fdinfo)) = 1
        /\ t.regs.syscall_result >= 0)
       => /\ ~t'.aborted
          /\ ret' = IF PosOf(t.fdinfo) < t.regs.syscall_result THEN None
                    ELSE Some(PosOf(t.fdinfo) - t.regs.syscall_result)]_vars

\* The same when the pos line is the last line of fdinfo.
C25_WriteOffsetFromLastLine ==
    [][(/\ op'[1] = "retrieve"
        /\ ~t.is_replaying
        /\ is_implict_offset_syscall(t.syscallno)
        /\ PosLinesOf(t.fdinfo) = {Len(LinesOf(t.fdinfo))}
        /\ t.fdinfo # <<>>
        /\ t.regs.syscall_result >= 0)
       => /\ ~t'.aborted
          /\ ret' = IF PosOf(t.fdinfo) < t.regs.syscall_result THEN None
                    ELSE Some(PosOf(t.fdinfo) - t.regs.syscall_result)]_vars

\* A write of 17 bytes, with "pos: 42" as the last line of fdinfo: 25.
C25_Witness ==
    /\ op[1] = "retrieve"
    /\ ~t.is_replaying
    /\ t.syscallno = "WRITE"
    /\ Len(LinesOf(t.fdinfo)) = 2
    /\ PosLinesOf(t.fdinfo) = {2}
    /\ t.regs.syscall_result = 17
    /\ ret = Some(25)

\* A line follows the pos line: the tracer has stopped in fatal!.
C25_FollowedPosLine ==
    /\ op[1] = "retrieve"
    /\ ~t.is_replaying
    /\ t.syscallno = "WRITE"
    /\ Len(LinesOf(t.fdinfo)) = 2
    /\ PosLinesOf(t.fdinfo) = {1}
    /\ t.aborted

\* The signed value of the offset in the arguments of a read or write at an
\* offset: arg4 + arg5 * 2^32 of a 32-bit tracee, arg4 of a 64-bit tracee.
ArgOffset(task) ==
    IF task.arch = "X86"
    THEN Signed(task.regs.arg4 + task.regs.arg5 * 2 ^ HalfBits, WordBits)
    ELSE Signed(task.regs.arg4, WordBits)

\* C26: for pread64, preadv, pwrite64 and pwritev, retrieve returns the
\* offset in the arguments, arg4 | (arg5 << 32) with arg4 unsigned for a
\* 32-bit tracee and arg4 for a 64-bit tracee, and no offset when that
\* signed value is negative, for every pair of arguments.
C26_OffsetFromArguments ==
    [][(/\ op'[1] = "retrieve"
        /\ t.syscallno \in {"PREAD64", "PREADV", "PWRITE64", "PWRITEV"}
        /\ (op'[2] \/ ~t.is_replaying))
       => /\ ~t'.aborted
          /\ ret' = IF ArgOffset(t) < 0 THEN None ELSE Some(ArgOffset(t))]_vars

\* A 32-bit tracee with the top bit of arg4 set and arg5 = 1.
C26_Witness ==
    /\ op[1] = "retrieve"
    /\ t.syscallno = "PREAD64"
    /\ t.arch = "X86"
    /\ t.regs.arg4 = 2 ^ HalfBits - 1
    /\ t.regs.arg5 = 1
    /\ ret = Some(2 ^ (HalfBits + 1) - 1)

\* C27: for a write or writev, the offset retrieve(true) returns while
\* recording is stored in the write_offset of the task's syscall event;
\* retrieve(true) while replaying returns the write_offset of the current
\* trace frame and does not read fdinfo, so that it returns what
\* retrieve(true) returned when the call was recorded; retrieve(false) while
\* replaying fails an assertion.
C27_ReplayOffsetFromFrame ==
    [][(op'[1] = "retrieve" /\ is_implict_offset_syscall(t.syscallno))
       => /\ (~t.is_replaying /\ op'[2] /\ ~t'.aborted)
                => t'.write_offset = ret'
          /\ (t.is_replaying /\ op'[2])
                => /\ ~t'.aborted
                   /\ ret' = t.frame_write_offset
                   /\ ~t'.fdinfo_read
                   /\ ret' = t.retrieved
          /\ (t.is_replaying /\ ~op'[2]) => t'.aborted]_vars

\* A write recorded at offset 25 is replayed with another fdinfo: retrieve
\* returns 25.
C27_Witness ==
    /\ op = <<"retrieve", TRUE>>
    /\ t.is_replaying
    /\ t.syscallno = "WRITE"
    /\ t.fdinfo = PosLine(<<"7">>)
    /\ ~t.aborted
    /\ t.retrieved = Some(25)
    /\ ret = Some(25)

\* retrieve(false) while replaying has aborted the tracer.
C27_AssertionWitness ==
    /\ op = <<"retrieve", FALSE>>
    /\ t.is_replaying
    /\ t.aborted

-----------------------------------------------------------------------------
(* The emulated ptrace relations: properties.                              *)

\* No live task of the session s refers to a task that is not live, as its
\* ptracer or as one of its tracees.
NoDeadPtraceReference(s) ==
    \A x \in s.live :
        /\ s.tasks[x].emulated_ptracer \in s.live \cup {0}
        /\ s.tasks[x].emulated_ptrace_tracees \subseteq s.live

\* C28: when a task is destroyed, each of its tracees has afterwards no
\* ptracer, no ptrace options, no pending stop and the stop type NotStopped,
\* and the task is no tracee of its ptracer any more; at all times no live
\* task refers to a destroyed task and a task without a ptracer has no
\* ptrace options.
C28_DropClearsPtraceRelations ==
    /\ [][(op'[1] = "drop" /\ ~t'.aborted)
          => /\ \A x \in t.tasks[op'[2]].emulated_ptrace_tracees :
                   /\ t'.tasks[x].emulated_ptracer = 0
                   /\ t'.tasks[x].emulated_ptrace_options = {}
                   /\ ~t'.tasks[x].emulated_stop_pending
                   /\ t'.tasks[x].emulated_stop_type = "NotStopped"
             /\ t.tasks[op'[2]].emulated_ptracer # 0
                   => op'[2] \notin
                        t'.tasks[t.tasks[op'[2]].emulated_ptracer].emulated_ptrace_tracees]_vars
    /\ [](/\ NoDeadPtraceReference(t)
          /\ \A x \in t.live :
                t.tasks[x].emulated_ptracer = 0
                   => t.tasks[x].emulated_ptrace_options = {})

\* A ptracer was destroyed after a stable exit: its tracee lives on, without
\* a ptracer.
C28_Witness ==
    /\ op[1] = "drop"
    /\ ~t.aborted
    /\ t.tasks[op[2]].destroyed
    /\ t.tasks[op[2]].stable_exit
    /\ \E x \in t.live :
          /\ x \in t.tasks[op[2]].emulated_ptrace_tracees
          /\ t.tasks[x].emulated_ptracer = 0
          /\ t.tasks[x].emulated_ptrace_options = {}
          /\ t.tasks[x].emulated_stop_type = "NotStopped"

\* A tracee was destroyed: its ptracer lives on, without a tracee.
C28_TraceeWitness ==
    /\ op[1] = "drop"
    /\ ~t.aborted
    /\ t.tasks[op[2]].destroyed
    /\ t.tasks[op[2]].emulated_ptracer \in t.live
    /\ t.tasks[t.tasks[op[2]].emulated_ptracer].emulated_ptrace_tracees = {}

-----------------------------------------------------------------------------
(* The CPUID features: properties.                                         *)

\* The registers of the CPUID data.
CpuidRegisterNames == {"eax", "ebx", "ecx", "edx"}

\* The bits amend_cpuid_data is to clear in the register reg for the leaf
\* eax_in and the subleaf ecx_in, with the features `self` to disable.
BitsToClear(self, eax_in, ecx_in, reg) ==
    IF eax_in = 1 /\ reg = "ecx" THEN {30} \cup self.features_ecx
    ELSE IF eax_in = 1 /\ reg = "edx" THEN self.features_edx
    ELSE IF eax_in = 7 /\ ecx_in = 0 /\ reg = "ebx"
    THEN {18, 11} \cup self.extended_features_ebx
    ELSE IF eax_in = 7 /\ ecx_in = 0 /\ reg = "ecx" THEN self.extended_features_ecx
    ELSE IF eax_in = 7 /\ ecx_in = 0 /\ reg = "edx" THEN self.extended_features_edx
    ELSE IF eax_in = 13 /\ ecx_in = 1 /\ reg = "eax"
    THEN {0} \cup self.xsave_features_eax
    ELSE {}

\* C29: amend_cpuid_data only clears bits.  For leaf 1 it clears RDRAND and
\* the bits of features_ecx in ecx and those of features_edx in edx; for leaf
\* 7, subleaf 0, RDSEED, RTM and the configured bits in ebx, ecx and edx; for
\* leaf 0xD, subleaf 1, XSAVEOPT and the configured bits in eax.  Every other
\* leaf, subleaf and register is unchanged, and a second application changes
\* nothing.
C29_AmendOnlyClearsBits ==
    [][op'[1] = "amend_cpuid_data"
       => /\ \A reg \in CpuidRegisterNames :
                LET clear == BitsToClear(t.disable_cpuid_features, t.eax_in, t.ecx_in, reg)
                IN  /\ t'.cpuid_data[reg] \subseteq t.cpuid_data[reg]
                    /\ t'.cpuid_data[reg] \cap clear = {}
                    /\ clear = {} => t'.cpuid_data[reg] = t.cpuid_data[reg]
          /\ op[1] = "amend_cpuid_data" => t'.cpuid_data = t.cpuid_data]_vars

\* CPUID(1) with RDRAND and bit 5 set in ecx, and bit 5 to disable: both are
\* clear in the amended data, and other bits are still set.
C29_Witness ==
    /\ op[1] = "amend_cpuid_data"
    /\ t.eax_in = 1
    /\ t.disable_cpuid_features.features_ecx = {5}
    /\ t.cpuid_data.ecx = {0, 11, 18, 31}
    /\ t.cpuid_data.ebx = {0, 5, 11, 18, 30, 31}

-----------------------------------------------------------------------------
(* The environment of the first tracee: properties.                        *)

\* The helper-library entry of a created session.
HelperEntry ==
    (IF t.libasan_path # <<>> THEN t.libasan_path \o <<":">> ELSE <<>>)
        \o t.syscall_buffer_lib_path \o <<"SYSCALLBUF_LIB_FILENAME_PADDED">>

\* The value of the first variable called name in env.
ValueOf(env, name) == env[FirstNamed(env, name)][2]

\* The environment create starts from.
StartEnv ==
    (IF t.use_syscall_buffer
     THEN set_var(t.process_env, "SYSCALLBUF_ENABLED_ENV_VAR", <<"1">>)
     ELSE remove_var(t.process_env, "SYSCALLBUF_ENABLED_ENV_VAR")) \o t.extra_env

\* C30: when the environment has an LD_PRELOAD entry, create replaces its
\* value by the helper-library entry (the address-sanitizer runtime first
\* when there is one, then the syscallbuf library), a ":" and the previous
\* value; when it has none, create adds one that holds the helper-library
\* entry.
C30_LdPreloadKeepsUserLibraries ==
    (t.created /\ t.syscall_buffer_lib_path # <<>>)
       => /\ FirstNamed(t.env, "LD_PRELOAD") # 0
          /\ ValueOf(t.env, "LD_PRELOAD") =
                IF FirstNamed(StartEnv, "LD_PRELOAD") # 0
                THEN HelperEntry \o <<":">> \o ValueOf(StartEnv, "LD_PRELOAD")
                ELSE HelperEntry

\* What holds of the code: the value starts with the helper-library entry,
\* and is that entry alone when there was no LD_PRELOAD.
C30_LdPreloadStartsWithHelper ==
    (t.created /\ t.syscall_buffer_lib_path # <<>>)
       => /\ FirstNamed(t.env, "LD_PRELOAD") # 0
          /\ SubSeq(ValueOf(t.env, "LD_PRELOAD"), 1, Len(HelperEntry)) = HelperEntry
          /\ FirstNamed(StartEnv, "LD_PRELOAD") = 0
                => ValueOf(t.env, "LD_PRELOAD") = HelperEntry

\* The user preloaded libuser.so: after create it is in no LD_PRELOAD value.
C30_UserLibraryLost ==
    /\ t.created
    /\ t.process_env = << <<"LD_PRELOAD", <<"libuser.so">> >> >>
    /\ t.extra_env = <<>>
    /\ t.libasan_path # <<>>
    /\ \A i \in 1..Len(t.env) :
          \A j \in 1..Len(t.env[i][2]) : t.env[i][2][j] # "libuser.so"

\* No LD_PRELOAD before create: one is added with the helper-library entry.
C30_Witness ==
    /\ t.created
    /\ t.syscall_buffer_lib_path # <<>>
    /\ FirstNamed(StartEnv, "LD_PRELOAD") = 0
    /\ t.libasan_path # <<>>
    /\ ValueOf(t.env, "LD_PRELOAD")
          = <<"libasan.so", ":", "/usr/lib/rd/", "SYSCALLBUF_LIB_FILENAME_PADDED">>

-----------------------------------------------------------------------------
(* The log: properties.                                                     *)

\* The items of RD_LOG with a ':' whose module name is name, by position.
ItemsFor(rd_log, name) ==
    LET items == Split(rd_log.val, ",")
    IN  {i \in 1..Len(items) :
            /\ rd_log.some
            /\ ":" \in {items[i][k] : k \in 1..Len(items[i])}
            /\ Trim(SubSeq(items[i], 1, Find(items[i], <<":">>) - 1)) = name}

\* The level that item i of RD_LOG names: warn for any other name.
ItemLevel(rd_log, i) ==
    LET item == Split(rd_log.val, ",")[i]
        level_name == Trim(SubSeq(item, Find(item, <<":">>) + 1, Len(item)))
    IN  IF level_name = <<"f", "a", "t", "a", "l">> THEN LogFatal
        ELSE IF level_name = <<"e", "r", "r", "o", "r">> THEN LogError
        ELSE IF level_name = <<"i", "n", "f", "o">> THEN LogInfo
        ELSE IF level_name = <<"d", "e", "b", "u", "g">> THEN LogDebug
        ELSE LogWarn

\* The threshold of the module of a source file under RD_LOG.
Threshold(rd_log, filename) ==
    LET stem == filename_to_module_name(filename)
    IN  IF ItemsFor(rd_log, stem) # {}
        THEN ItemLevel(rd_log, Max(ItemsFor(rd_log, stem)))
        ELSE IF ItemsFor(rd_log, ModAll) # {}
        THEN ItemLevel(rd_log, Max(ItemsFor(rd_log, ModAll)))
        ELSE LogWarn

\* C31: a message of log! is written to the log file, and is_logging! is
\* true, exactly when its level is at most the threshold of the module of
\* its source file: the level of the last item of RD_LOG for the file stem,
\* otherwise of the last item for "all", otherwise warn, where an item
\* without ':' is ignored and an unknown level name is warn. The message of
\* fatal! and of a failed ed_assert! is written whatever the threshold.
C31_EmittedIffAtOrAboveThreshold ==
    [][/\ op'[1] = "log" =>
            /\ ret' <=> op'[2] <= Threshold(t.rd_log, op'[3])
            /\ t'.log_file = t.log_file + (IF ret' THEN 1 ELSE 0)
       /\ op'[1] = "is_logging" =>
            /\ ret' <=> op'[2] <= Threshold(t.rd_log, op'[3])
            /\ t'.log_file = t.log_file
       /\ op'[1] = "fatal" =>
            /\ ret'
            /\ t'.log_file = t.log_file + 1]_vars

\* An info message of a module that RD_LOG sets to error is not written
\* although "all" is set to debug.
C31_Witness ==
    /\ op[1] = "log"
    /\ op[2] = LogInfo
    /\ ~ret
    /\ t.default_level = LogDebug
    /\ Threshold(t.rd_log, op[3]) = LogError

\* A debug message is written under the level of "all".
C31_DefaultWitness ==
    /\ op[1] = "log"
    /\ op[2] = LogDebug
    /\ ret
    /\ t.level_map = EmptyMap
    /\ t.log_file = 1

\* C32: a process that enters fatal! or a failing ed_assert! writes the
\* message to the log file, releases the lock of the log that the stream of
\* the message holds, flushes the log buffer, prints the backtrace and
\* aborts, in this order; the lock is free when flush_log_buffer asks for
\* it, the message has left the buffer of the log file before the backtrace
\* is printed, and every process that enters reaches the abort.
C32_FatalOrder ==
    /\ [](t.aborted =>
            t.events = <<"enter", "write", "release", "flush", "backtrace", "abort">>)
    /\ [](t.pc = "dropped" => t.lock = "free" /\ t.message = <<>>)
    /\ [](t.backtrace => t.log_sink = t.log_file)
    /\ [][t'.aborted /\ ~t.aborted => t.backtrace /\ t'.log_file = t.log_file]_vars
    /\ (t.pc # "run") ~> t.aborted

\* A process has aborted with an earlier message still in the buffer of the
\* log file when it entered.
C32_Witness ==
    /\ t.aborted
    /\ t.log_buffer_size = 2
    /\ t.log_file = 2
    /\ t.log_sink = 2
    /\ t.backtrace

-----------------------------------------------------------------------------
(* perf_event_paranoid: properties.                                         *)

\* The text of a decimal integer with or without a sign, and its value.
IsIntegerText(s) ==
    LET digits == IF s # <<>> /\ s[1] \in {"+", "-"} THEN Tail(s) ELSE s
    IN  digits # <<>> /\ \A i \in 1..Len(digits) : digits[i] \in Digits

IntegerValue(s) ==
    IF s[1] = "-" THEN 0 - DecimalValue(Tail(s))
    ELSE IF s[1] = "+" THEN DecimalValue(Tail(s))
    ELSE DecimalValue(s)

\* The process has ended as clean_fatal! ends it.
CleanExit(p) ==
    /\ p.exited
    /\ p.exit_status = 1
    /\ p.stderr # <<>>
    /\ ~p.backtrace
    /\ ~p.aborted
    /\ ~p.created

\* C33: with syscall buffering, create ends the process with a message on
\* stderr and status 1, without backtrace and abort, when
\* perf_event_paranoid holds a value above 1, and creates the session for
\* every value that is at most 1, negative values included, and when the
\* file cannot be opened; without syscall buffering it does not open the
\* file.
C33_ParanoidAboveOneExits ==
    [][op'[1] = "create" =>
         LET value == IntegerValue(Trim(t.contents))
             holds_value == /\ t.fd_is_open
                            /\ t.read_ok
                            /\ IsIntegerText(Trim(t.contents))
         IN  /\ t.use_syscall_buffer /\ holds_value /\ value > 1 => CleanExit(t')
             /\ t.use_syscall_buffer /\ holds_value /\ value <= 1 =>
                    t'.created /\ ~t'.exited
             /\ t.use_syscall_buffer /\ ~t.fd_is_open => t'.created /\ ~t'.exited
             /\ ~t.use_syscall_buffer =>
                    t'.created /\ ~t'.exited /\ ~t'.file_opened]_vars

\* The same with the values 0 and 1 in the place of "at most 1".
C33_ParanoidUnsigned ==
    [][op'[1] = "create" =>
         LET value == IntegerValue(Trim(t.contents))
             holds_value == /\ t.fd_is_open
                            /\ t.read_ok
                            /\ IsIntegerText(Trim(t.contents))
         IN  /\ t.use_syscall_buffer /\ holds_value /\ value > 1 => CleanExit(t')
             /\ (t.use_syscall_buffer /\ holds_value /\ value \in {0, 1}
                    /\ Trim(t.contents)[1] # "-") =>
                    t'.created /\ ~t'.exited
             /\ t.use_syscall_buffer /\ ~t.fd_is_open => t'.created /\ ~t'.exited
             /\ ~t.use_syscall_buffer =>
                    t'.created /\ ~t'.exited /\ ~t'.file_opened]_vars

\* perf_event_paranoid is -1 and the process has ended in clean_fatal!.
C33_NegativeRejected ==
    /\ op[1] = "create"
    /\ t.use_syscall_buffer
    /\ t.contents = <<"-", "1", "\n">>
    /\ CleanExit(t)

\* perf_event_paranoid is 2 and the process has ended in clean_fatal!.
C33_Witness ==
    /\ op[1] = "create"
    /\ t.use_syscall_buffer
    /\ t.contents = <<"2", "\n">>
    /\ CleanExit(t)

-----------------------------------------------------------------------------
(* did_wait: properties.                                                    *)

\* C34: whenever did_wait runs with stashed_signals_blocking_more_signals
\* set, blocked_sigs_dirty is clear: the assertion of did_wait holds and the
\* mask it sets with PTRACE_SETSIGMASK is the cached mask, in every state
\* that the stash calls, get_sigmask, invalidate_sigmask, unblock_signal and
\* on_syscall_exit lead a new task to.
C34_DidWaitFindsCleanMask ==
    [][op'[1] = "did_wait" /\ t.stashed_signals_blocking_more_signals =>
         /\ ~t.blocked_sigs_dirty
         /\ ~t'.aborted
         /\ t'.kernel_sigmask = t.blocked_sigs]_vars

\* did_wait with the flag set and a mask that get_sigmask has read since it
\* was last invalidated sets that mask.
C34_DidWaitRestoresCachedMask ==
    [][(/\ op'[1] = "did_wait"
        /\ t.stashed_signals_blocking_more_signals
        /\ ~t.blocked_sigs_dirty) =>
         /\ ~t'.aborted
         /\ t'.kernel_sigmask = t.blocked_sigs
         /\ t'.ptrace_sigmask = t.blocked_sigs
         /\ ~t'.blocked_sigs_dirty]_vars

\* The assertion of did_wait has failed on a task with a stashed signal
\* whose mask was never read.
C34_AssertionFailed ==
    /\ op[1] = "did_wait"
    /\ t.aborted

\* did_wait has set the cached mask.
C34_Witness ==
    /\ op[1] = "did_wait"
    /\ ~t.aborted
    /\ t.stashed_signals_blocking_more_signals
    /\ ~t.blocked_sigs_dirty
    /\ t.kernel_sigmask = t.blocked_sigs

-----------------------------------------------------------------------------
(* The syscallbuf at the end of a task and in the recording calls:         *)
(* properties.                                                              *)

\* The frames that a step has added to the trace.
AddedFrames == SubSeq(t'.trace, Len(t.trace) + 1, Len(t'.trace))

FlushOrReset == {"EvSyscallbufFlush", "EvSyscallbufReset"}

\* C35: the destruction of a task does not flush and does not reset its
\* syscallbuf, whatever the buffer holds, and the exit event is the last
\* frame of the task: no flush event and no reset event is written, the
\* buffer and flushed_syscallbuf stay as they were, and no raw-data record
\* is later than the exit frame.
C35_DropLeavesSyscallbuf ==
    [][op'[1] = "drop" =>
         /\ \A i \in 1..Len(AddedFrames) : AddedFrames[i].type \notin FlushOrReset
         /\ t'.flushed_syscallbuf = t.flushed_syscallbuf
         /\ t'.hdr_num_rec_bytes = t.hdr_num_rec_bytes
         /\ t'.trace[Len(t'.trace)].type = "EvExit"
         /\ \A i \in 1..Len(t'.raw_data) : t'.raw_data[i].time <= Len(t'.trace)]_vars

\* The destruction does not reset the buffer, the exit event is the last
\* frame, and a flush event is written only before the record of the tid
\* futex.
C35_DropFlushesOnlyForTidFutex ==
    [][op'[1] = "drop" =>
         /\ \A i \in 1..Len(AddedFrames) : AddedFrames[i].type # "EvSyscallbufReset"
         /\ t'.hdr_num_rec_bytes = t.hdr_num_rec_bytes
         /\ t'.trace[Len(t'.trace)].type = "EvExit"
         /\ \A i \in 1..Len(t'.raw_data) : t'.raw_data[i].time <= Len(t'.trace)
         /\ (\E i \in 1..Len(AddedFrames) : AddedFrames[i].type = "EvSyscallbufFlush") =>
                /\ WaitsForTidFutex(t)
                /\ Len(t'.raw_data) = Len(t.raw_data) + 1
         /\ ~WaitsForTidFutex(t) =>
                /\ AddedFrames = <<PlainEvent("EvExit")>>
                /\ t'.flushed_syscallbuf = t.flushed_syscallbuf]_vars

\* A task was destroyed and the record of its tid futex has flushed its
\* syscallbuf.
C35_DropFlushed ==
    /\ op[1] = "drop"
    /\ t.destroyed
    /\ Len(t.trace) = 2
    /\ t.trace[1].type = "EvSyscallbufFlush"
    /\ t.trace[2].type = "EvExit"
    /\ t.flushed_syscallbuf

\* A task with records in its syscallbuf was destroyed without a flush.
C35_Witness ==
    /\ op[1] = "drop"
    /\ t.destroyed
    /\ t.hdr_num_rec_bytes > 0
    /\ ~t.flushed_syscallbuf
    /\ t.trace[Len(t.trace)].type = "EvExit"

RecordingCalls ==
    {"record_local", "record_remote", "record_remote_fallible",
     "record_remote_writable", "record_remote_even_if_null"}

\* The step has written its raw-data record after a flush of the syscallbuf:
\* a buffer that held records is flushed, its flush event is in the trace,
\* and the record has the time of the frame that follows the trace.
WroteAfterFlush ==
    /\ (t.syscallbuf_child /\ t.hdr_num_rec_bytes > 0) =>
           /\ t'.flushed_syscallbuf
           /\ \E i \in 1..Len(t'.trace) : t'.trace[i].type = "EvSyscallbufFlush"
    /\ t'.raw_data[Len(t'.raw_data)].time = Len(t'.trace) + 1

\* C36: each of record_local, record_remote, record_remote_fallible,
\* record_remote_writable and record_remote_even_if_null that writes a
\* raw-data record has called maybe_flush_syscallbuf before, with and without
\* a local mapping of the range: the records of the buffered syscalls are in
\* the trace before the data.
C36_FlushBeforeRawData ==
    [][op'[1] \in RecordingCalls /\ Len(t'.raw_data) > Len(t.raw_data) =>
         WroteAfterFlush]_vars

\* The same of every call but the record_remote_fallible that finds no
\* local mapping.
C36_FlushBeforeRawDataButFallible ==
    [][(/\ op'[1] \in RecordingCalls
        /\ Len(t'.raw_data) > Len(t.raw_data)
        /\ (op'[1] = "record_remote_fallible" => op'[3])) =>
         WroteAfterFlush]_vars

\* record_remote_fallible has written the bytes it read from the tracee and
\* the records of the syscallbuf are not in the trace.
C36_DataBeforeBufferedRecords ==
    /\ op[1] = "record_remote_fallible"
    /\ ~op[3]
    /\ Len(t.raw_data) = 1
    /\ t.syscallbuf_child
    /\ t.hdr_num_rec_bytes > 0
    /\ ~t.flushed_syscallbuf
    /\ t.trace = <<>>

\* record_remote has flushed the buffer and written the bytes it read.
C36_Witness ==
    /\ op[1] = "record_remote"
    /\ Len(t.raw_data) = 1
    /\ t.flushed_syscallbuf
    /\ t.trace = <<PlainEvent("EvSyscallbufFlush")>>
    /\ t.raw_data[1].time = 2

\* The frames of type `type` in the trace.
FramesOf(type) == {i \in 1..Len(t.trace) : t.trace[i].type = type}

C37_FlushedOnlyWhileDelayed ==
    [][/\ (/\ op'[1] = "record_event"
           /\ ~has_ticks_slop(PlainEvent(op'[2]))
           /\ op'[3] = "FlushSyscallbuf"
           /\ op'[4] = "AllowResetSyscallbuf"
           /\ ~t.delay_syscallbuf_reset_for_desched
           /\ ~t.delay_syscallbuf_reset_for_seccomp_trap
           /\ ~t'.aborted) => ~t'.flushed_syscallbuf
       /\ NewFrames("EvSyscallbufFlush") # {} =>
              t.syscallbuf_child /\ t.hdr_num_rec_bytes > 0]_vars

\* While the desched delay flag postpones the reset, two record_event calls
\* have each written a flush event for the same records of the buffer.
C37_FlushedTwiceWhileDelayed ==
    /\ op[1] = "record_event"
    /\ t.delay_syscallbuf_reset_for_desched
    /\ t.flushed_syscallbuf
    /\ Cardinality(FramesOf("EvSyscallbufFlush")) = 2
    /\ FramesOf("EvSyscallbufReset") = {}
    /\ t.flushed_num_rec_bytes = t.hdr_num_rec_bytes

\* The positions of the queue whose entry is no synthetic SIGCHLD.
NotSynthetic ==
    {i \in 1..Len(t.stashed_signals) :
        ~(/\ t.stashed_signals[i].siginfo.si_signo = SIGCHLD
          /\ t.stashed_signals[i].siginfo.sival_int = SIGCHLD_SYNTHETIC)}

\* C38: peek_stashed_sig_to_deliver returns no signal iff the queue is empty;
\* otherwise it returns the queued entry nearest the head that is no synthetic
\* SIGCHLD, and the head, a synthetic SIGCHLD, only when every queued entry is
\* a synthetic SIGCHLD; it never changes the queue.
C38_PeekSkipsSyntheticSigchld ==
    [][op'[1] = "peek_stashed_sig_to_deliver" =>
          /\ t' = t
          /\ ret' = 0 <=> t.stashed_signals = <<>>
          /\ NotSynthetic # {} =>
                 /\ ret' \in NotSynthetic
                 /\ \A i \in NotSynthetic : ret' <= i
          /\ (NotSynthetic = {} /\ t.stashed_signals # <<>>) => ret' = 1]_vars

\* C38's case: with a synthetic SIGCHLD at the head of a queue of two, the
\* call has returned the second entry.
C38_Witness ==
    /\ op[1] = "peek_stashed_sig_to_deliver"
    /\ Len(t.stashed_signals) = 2
    /\ t.stashed_signals[1].siginfo.si_signo = SIGCHLD
    /\ t.stashed_signals[1].siginfo.sival_int = SIGCHLD_SYNTHETIC
    /\ ret = 2

\* C38's other case: the queue holds a synthetic SIGCHLD alone and the call
\* has returned it.
C38_OnlySyntheticWitness ==
    /\ op[1] = "peek_stashed_sig_to_deliver"
    /\ Len(t.stashed_signals) = 1
    /\ NotSynthetic = {}
    /\ ret = 1

\* C39: after RecordSession::new and any sequence of set_enable_chaos calls,
\* enable_chaos() of the session is the chaos setting of its scheduler and,
\* before any set_enable_chaos call, the chaos record flag; the in_chaos value
\* a preload initialisation writes and records is 1 exactly when the
\* scheduler runs in chaos mode.
C39_EnableChaosIsChaosMode ==
    [][/\ enable_chaos(t') = t'.scheduler_.enable_chaos
       /\ t'.set_enable_chaos_calls = 0 => enable_chaos(t') = t'.flags_chaos
       /\ op'[1] = "do_preload_init" =>
              /\ t'.in_chaos[Len(t'.in_chaos)] = BoolAsU8(t.scheduler_.enable_chaos)
              /\ t'.raw_data[Len(t'.raw_data)] = BoolAsU8(t.scheduler_.enable_chaos)]_vars

\* C39, what holds: once set_enable_chaos has been called, enable_chaos() is
\* the chaos setting of the scheduler and the argument of the last call;
\* before that it is false whatever the chaos record flag is; the in_chaos
\* value a preload initialisation writes and records is enable_chaos().
C39_EnableChaosIsLastSet ==
    [][/\ t'.set_enable_chaos_calls > 0 =>
              enable_chaos(t') = t'.scheduler_.enable_chaos
       /\ op'[1] = "set_enable_chaos" => enable_chaos(t') = op'[2]
       /\ t'.set_enable_chaos_calls = 0 =>
              /\ ~enable_chaos(t')
              /\ t'.scheduler_.enable_chaos = t'.flags_chaos
       /\ op'[1] = "enable_chaos" => ret' = t.enable_chaos_
       /\ op'[1] = "do_preload_init" =>
              /\ t'.in_chaos[Len(t'.in_chaos)] = BoolAsU8(t.enable_chaos_)
              /\ t'.raw_data[Len(t'.raw_data)] = BoolAsU8(t.enable_chaos_)]_vars

\* A session recorded with the chaos flag, on which set_enable_chaos was never
\* called, has initialised the preload globals of a task with in_chaos 0 while
\* its scheduler runs in chaos mode.
C39_ChaosNotTold ==
    /\ op[1] = "do_preload_init"
    /\ t.flags_chaos
    /\ t.scheduler_.enable_chaos
    /\ t.set_enable_chaos_calls = 0
    /\ t.in_chaos = <<0>>
    /\ t.raw_data = <<0>>

\* C39's case: after set_enable_chaos(true) a preload initialisation has
\* written and recorded in_chaos 1.
C39_Witness ==
    /\ op[1] = "do_preload_init"
    /\ t.set_enable_chaos_calls > 0
    /\ t.scheduler_.enable_chaos
    /\ t.in_chaos[Len(t.in_chaos)] = 1
    /\ t.raw_data[Len(t.raw_data)] = 1

\* The frames the step has appended to the trace.
StepFrames == SubSeq(t'.trace, Len(t.trace) + 1, Len(t'.trace))

\* The number of frames of StepFrames that are no flush frame.  Each
\* record_event call writes the frame of its event once, so this is the
\* number of record_event calls of the step, the nested ones included.
RecordEventCalls ==
    Cardinality({i \in 1..Len(StepFrames) : StepFrames[i].type # "EvSyscallbufFlush"})

\* C40: every record_event call returns, and the record_event that
\* maybe_reset_syscallbuf issues for the syscallbuf-reset event resets
\* nothing: a step of record_event or maybe_reset_syscallbuf writes at most
\* one syscallbuf-reset frame, as its last frame and with flushed_syscallbuf
\* cleared, and runs at most two record_event calls, two exactly when it
\* resets the buffer of a flushed task with no delay flag set.
C40_ResetNestsOnce ==
    [][(op'[1] \in {"record_event", "maybe_reset_syscallbuf"} /\ ~t'.aborted) =>
          /\ Cardinality(NewFrames("EvSyscallbufReset")) <= 1
          /\ NewFrames("EvSyscallbufReset") # {} =>
                 /\ NewFrames("EvSyscallbufReset") = {Len(t'.trace)}
                 /\ ~t'.flushed_syscallbuf
                 /\ t'.hdr_num_rec_bytes = 0
          /\ op'[1] = "record_event" =>
                 /\ RecordEventCalls \in {1, 2}
                 /\ RecordEventCalls = 2 <=> NewFrames("EvSyscallbufReset") # {}
                 /\ StepFrames[IF Head(StepFrames).type = "EvSyscallbufFlush"
                               /\ op'[2] # "EvSyscallbufFlush"
                               THEN 2 ELSE 1].type = op'[2]
          /\ op'[1] = "maybe_reset_syscallbuf" =>
                 /\ RecordEventCalls \in {0, 1}
                 /\ RecordEventCalls = 1 <=>
                        /\ t.flushed_syscallbuf
                        /\ ~t.delay_syscallbuf_reset_for_desched
                        /\ ~t.delay_syscallbuf_reset_for_seccomp_trap]_vars

\* C40's case: record_event has flushed a buffer that held records, written
\* its frame and, nested in maybe_reset_syscallbuf, the one reset frame.
C40_Witness ==
    /\ op[1] = "record_event"
    /\ op[2] = "EvNoop"
    /\ ~t.aborted
    /\ t.syscallbuf_child
    /\ ~t.flushed_syscallbuf
    /\ Len(t.trace) = 3
    /\ t.trace[1].type = "EvSyscallbufFlush"
    /\ t.trace[2].type = "EvNoop"
    /\ t.trace[3].type = "EvSyscallbufReset"

====
